---- MODULE Spec2Model ----
(***************************************************************************)
(* The feedback-to-feature clustering pipeline of ai-feature-prioritizer:  *)
(* src/ai/clustering.py over the SQLite tables of src/database/db.py.      *)
(*                                                                         *)
(* Every Streamlit session runs its script in a thread of its own, so      *)
(* run_clustering may be active in several sessions of the one process.    *)
(* Each SQL statement followed by commit is one atomic step.               *)
(***************************************************************************)
EXTENDS Integers, Sequences, FiniteSets, TLC

----------------------------------------------------------------------------
(* Bounds of the model *)

\* feedback rows a user holds at most
MaxFeedback == 3
\* run_clustering invocations in one behaviour
MaxCalls == 2
\* failures the environment injects in one behaviour (database errors, model
\* and clustering exceptions)
MaxFaults == 1

(* Program constants *)

MIN_FEEDBACK_FOR_CLUSTERING == 3
DEFAULT_CLUSTER_COUNT == 5
max_length == 100
DEFAULT_confidence == 80
MAX_FEEDBACK_DISPLAY_LENGTH == 200

\* the session threads of the process, and the registered users
Sessions == {1, 2}
UserIds == {1, 2}

None == "None"
NULL == "NULL"

Min(a, b) == IF a < b THEN a ELSE b

----------------------------------------------------------------------------
(* Texts are sequences of characters *)

Upper == {"A", "F", "X"}
Whitespace == {" ", "\t", "\n"}

\* no case folding
keep_case(c) == c

\* str.lower(), character by character
lower(c) ==
    CASE c = "A" -> "a"
      [] c = "F" -> "f"
      [] c = "X" -> "x"
      [] OTHER -> c

\* str.split(): the maximal runs of non-whitespace characters, in order
RECURSIVE split(_)
split(text) ==
    IF text = <<>> THEN <<>>
    ELSE IF Head(text) \in Whitespace THEN split(Tail(text))
    ELSE LET rest == split(Tail(text))
         IN  IF Len(text) > 1 /\ text[2] \notin Whitespace
             THEN <<(<<Head(text)>> \o Head(rest))>> \o Tail(rest)
             ELSE <<(<<Head(text)>>)>> \o rest

\* ' '.join(words)
RECURSIVE join(_)
join(words) ==
    IF words = <<>> THEN <<>>
    ELSE IF Len(words) = 1 THEN Head(words)
    ELSE Head(words) \o <<" ">> \o join(Tail(words))

RECURSIVE lstrip(_)
lstrip(text) ==
    IF text # <<>> /\ Head(text) \in Whitespace THEN lstrip(Tail(text)) ELSE text

RECURSIVE rstrip(_)
rstrip(text) ==
    IF text # <<>> /\ text[Len(text)] \in Whitespace
    THEN rstrip(SubSeq(text, 1, Len(text) - 1))
    ELSE text

strip(text) == rstrip(lstrip(text))

\* "not text" holds of the empty string and of None alike: both are <<>> here
preprocess_text(text) ==
    IF text = <<>> THEN <<>>
    ELSE strip(join(split([i \in 1..Len(text) |-> lower(text[i])])))

\* the texts feedback rows hold
TextPool ==
    << <<"F", "i", "x", " ", "i", "t">>,
       <<"A", "d", "d", " ", " ", "X", "\n">>,
       <<"b", "u", "g">>,
       <<"X", "\t", "a">>,
       <<"a", "d", "d", " ", "x">> >>

----------------------------------------------------------------------------
(* State *)

VARIABLES
    db_feedback,    \* table feedback: rows [id, user_id, feedback_text, created_at]
    db_features,    \* table features
    feature_seq,    \* AUTOINCREMENT sequence of features.id
    _model,         \* clustering._model: None, or the instance loaded
    constructed,    \* SentenceTransformer(...) constructions so far
    calls,          \* run_clustering invocations so far
    faults,         \* failures injected so far
    pc,             \* per session: the stage run_clustering is at
    user_id,        \* per session: the argument of run_clustering
    feedback_list,  \* per session: local feedback_list
    model,          \* per session: local model of generate_embeddings
    embeddings,     \* per session: local embeddings
    requested_k,    \* per session: the argument n_clusters of cluster_feedback
    kmeans_k,       \* per session: <<k>> once KMeans(n_clusters=k) was constructed
    labels,         \* per session: local labels
    features,       \* per session: local features
    idx,            \* per session: position of the for loop over features
    feature_count,  \* per session: local feature_count
    result,         \* per session: the tuple run_clustering returned
    fault,          \* per session: str(e) of the exception raised in the run, or None
    before,         \* per session: db_features when the run was called
    cleared,        \* per session: <<n>> once the DELETE of this run was committed,
                    \*   n the value of feature_seq then
    attempted,      \* per session: positions of features passed to create_feature
    written,        \* per session: <<position, id>> of the rows this run inserted
    swallowed,      \* per session: the db.py calls of this run that caught an exception
    session_state,  \* per session: st.session_state, the keys set so far
    args,           \* per session: the arguments of the call in progress outside
                    \*   the clustering pipeline
    current_count,  \* per session: local current_count of the feedback processor
    returned,       \* per session: what that call returned
    feedback_seq    \* AUTOINCREMENT sequence of feedback.id

db == <<db_feedback, db_features, feature_seq>>
proc == <<_model, constructed, calls, faults>>
locals == <<pc, user_id, feedback_list, model, embeddings, requested_k, kmeans_k,
            labels, features, idx, feature_count, result>>
history == <<fault, before, cleared, attempted, written, swallowed>>
app == <<session_state, args, current_count, returned, feedback_seq>>
vars == <<db, proc, locals, history, app>>

NoResult == [success |-> FALSE, message |-> "", feature_count |-> 0]

----------------------------------------------------------------------------
(* src/database/db.py *)

\* the permutations of a finite set, as sequences
Perms(S) ==
    {f \in [1..Cardinality(S) -> S] : \A i, j \in 1..Cardinality(S) : i # j => f[i] # f[j]}

\* SELECT id, feedback_text, created_at FROM feedback WHERE user_id = ?
\* ORDER BY created_at DESC: every order of the rows that the ORDER BY allows
get_user_feedback(u) ==
    LET rows == {r \in db_feedback : r.user_id = u}
    IN  {[i \in 1..Cardinality(rows) |->
             [id |-> p[i].id, feedback_text |-> p[i].feedback_text,
              created_at |-> p[i].created_at]] :
         p \in {q \in Perms(rows) :
                  \A i, j \in 1..Cardinality(rows) :
                      i < j => q[i].created_at >= q[j].created_at}}

\* clear_user_features without its conn.commit(): closing the connection
\* rolls the DELETE back
clear_user_features_uncommitted(u) == db_features

\* a DELETE without its WHERE clause
clear_all_features(u) == {}

\* DELETE FROM features WHERE user_id = ?
clear_user_features(u) == {r \in db_features : r.user_id # u}

\* INSERT INTO features (user_id, feature_name, reach) VALUES (?, ?, ?):
\* the other columns take the defaults of CREATE TABLE features
FeatureRow(id, u, feature_name, reach) ==
    [id |-> id, user_id |-> u, feature_name |-> feature_name, cluster_id |-> NULL,
     reach |-> reach, impact |-> 0, confidence |-> DEFAULT_confidence, effort |-> 0,
     rice_score |-> 0]

\* create_feature leaving reach out of the INSERT, so that it takes its default
create_feature_default_reach(u, feature_name, reach) ==
    db_features \cup {FeatureRow(feature_seq + 1, u, feature_name, 0)}

create_feature(u, feature_name, reach) ==
    db_features \cup {FeatureRow(feature_seq + 1, u, feature_name, reach)}

----------------------------------------------------------------------------
(* src/ai/clustering.py: the functions of the pipeline *)

\* model.encode(cleaned_texts): one vector per text, in order; the vector a
\* text gets is determined by the cleaned text, which stands for it here
encode(cleaned_texts) == [i \in 1..Len(cleaned_texts) |-> <<"vec", cleaned_texts[i]>>]

\* the n_clusters that cluster_feedback hands to KMeans
\* (an optional argument is <<>> for None and <<k>> for the integer k)
effective_n_clusters(n_clusters, n_samples) ==
    LET requested == IF n_clusters = <<>> THEN DEFAULT_CLUSTER_COUNT ELSE n_clusters[1]
    IN  Min(requested, n_samples)

InvalidParameter == "The 'n_clusters' parameter of KMeans must be an int in the range [1, inf)"
ConvergenceFault == "KMeans: numerical failure"

\* KMeans(n_clusters=k, random_state=42, n_init=10).fit_predict(X): what the
\* call can end in. scikit-learn rejects k < 1 and k > n_samples; otherwise it
\* labels every sample with a cluster in 0..k-1, or fails numerically
fit_predict(k, X) ==
    IF k < 1 \/ k > Len(X)
    THEN {[ok |-> FALSE, fault |-> InvalidParameter, labels |-> <<>>]}
    ELSE {[ok |-> TRUE, fault |-> None, labels |-> l] : l \in [1..Len(X) -> 0..(k - 1)]}
         \cup {[ok |-> FALSE, fault |-> ConvergenceFault, labels |-> <<>>]}

cluster_feedback(X, n_clusters) ==
    fit_predict(effective_n_clusters(n_clusters, Len(X)), X)

Unnamed == <<"U", "n", "n", "a", "m", "e", "d", " ", "F", "e", "a", "t", "u", "r", "e">>

\* the last text of minimal length, as min over the reversed list would give
shortest_last(cluster_texts) ==
    LET i == CHOOSE i \in 1..Len(cluster_texts) :
                 /\ \A j \in 1..Len(cluster_texts) :
                        Len(cluster_texts[i]) <= Len(cluster_texts[j])
                 /\ \A j \in (i + 1)..Len(cluster_texts) :
                        Len(cluster_texts[j]) > Len(cluster_texts[i])
    IN  cluster_texts[i]

\* min(cluster_texts, key=len): the first text of minimal length
shortest(cluster_texts) ==
    LET i == CHOOSE i \in 1..Len(cluster_texts) :
                 /\ \A j \in 1..Len(cluster_texts) :
                        Len(cluster_texts[i]) <= Len(cluster_texts[j])
                 /\ \A j \in 1..(i - 1) :
                        Len(cluster_texts[j]) > Len(cluster_texts[i])
    IN  cluster_texts[i]

\* a labeler that names every group with the placeholder
always_unnamed(feedback_texts, cluster_indices) == Unnamed

get_representative_text(feedback_texts, cluster_indices) ==
    IF cluster_indices = <<>> THEN Unnamed
    ELSE LET cluster_texts == [i \in 1..Len(cluster_indices) |->
                                  feedback_texts[cluster_indices[i]]]
             representative == shortest(cluster_texts)
         IN  IF Len(representative) > max_length
             THEN SubSeq(representative, 1, max_length) \o <<".", ".", ".">>
             ELSE representative

\* the elements of a finite set of integers, ascending
RECURSIVE ascending(_)
ascending(S) ==
    IF S = {} THEN <<>>
    ELSE LET m == CHOOSE x \in S : \A y \in S : x <= y
         IN  <<m>> \o ascending(S \ {m})

\* the labels as given, one entry per feedback item
labels_as_given(l) == l

\* np.unique(labels)
unique(l) == ascending({l[i] : i \in 1..Len(l)})

\* np.where(labels >= cluster_id) in place of ==
where_at_least(l, cluster_id) == ascending({i \in 1..Len(l) : l[i] >= cluster_id})

\* np.where(labels == cluster_id)[0].tolist()
where(l, cluster_id) == ascending({i \in 1..Len(l) : l[i] = cluster_id})

\* a descending sort that reverses the features of equal reach, as
\* sorted(features, key=reach)[::-1] would
RECURSIVE sort_by_reach_reversed(_)
sort_by_reach_reversed(fs) ==
    IF fs = <<>> THEN <<>>
    ELSE LET i == CHOOSE i \in 1..Len(fs) :
                      /\ \A j \in 1..Len(fs) : fs[i].reach >= fs[j].reach
                      /\ \A j \in (i + 1)..Len(fs) : fs[j].reach < fs[i].reach
         IN  <<fs[i]>> \o sort_by_reach_reversed(SubSeq(fs, 1, i - 1)
                                                     \o SubSeq(fs, i + 1, Len(fs)))

\* list.sort(key=reach, reverse=True): stable, so features of equal reach
\* keep the order they were appended in
RECURSIVE sort_by_reach(_)
sort_by_reach(fs) ==
    IF fs = <<>> THEN <<>>
    ELSE LET i == CHOOSE i \in 1..Len(fs) :
                      /\ \A j \in 1..Len(fs) : fs[i].reach >= fs[j].reach
                      /\ \A j \in 1..(i - 1) : fs[j].reach < fs[i].reach
         IN  <<fs[i]>> \o sort_by_reach(SubSeq(fs, 1, i - 1) \o SubSeq(fs, i + 1, Len(fs)))

\* one turn of the loop over unique_labels: the dictionary appended for the
\* group cluster_indices of the label cluster_id
feature_dict(feedback_texts, cluster_indices, cluster_id) ==
    [feature_name |-> get_representative_text(feedback_texts, cluster_indices),
     reach |-> Len(cluster_indices),
     cluster_id |-> cluster_id]

generate_features_from_clusters(fl, l) ==
    LET unique_labels == unique(l)
        feedback_texts == [i \in 1..Len(fl) |-> fl[i].feedback_text]
        appended == [c \in 1..Len(unique_labels) |->
                        feature_dict(feedback_texts, where(l, unique_labels[c]),
                                     unique_labels[c])]
    IN  sort_by_reach(appended)

----------------------------------------------------------------------------
(* Initial state: the tables as earlier use of the application left them *)

\* c[u] feedback rows for user u, ids in insertion order; created_at has the
\* resolution of a second: rows inserted one by one carry distinct timestamps,
\* rows inserted in batches of two share one
FeedbackTable(c, batch) ==
    LET first(u) == IF u = 1 THEN 0 ELSE c[1]
    IN  UNION {{[id |-> first(u) + j, user_id |-> u,
                 feedback_text |-> TextPool[((first(u) + j - 1) % Len(TextPool)) + 1],
                 created_at |-> IF batch THEN (first(u) + j + 1) \div 2
                                         ELSE first(u) + j] : j \in 1..c[u]}
               : u \in UserIds}

\* nothing clustered yet, the model not loaded
Fresh ==
    /\ db_features = {}
    /\ feature_seq = 0
    /\ _model = None
    /\ constructed = 0
    /\ calls = 0
    /\ faults = 0

NoArgs == [fn |-> None]

\* a new Streamlit session holds no key; no call is in progress, and the
\* feedback rows carry the ids 1, 2, ... in the order of their insertion
NoCalls ==
    /\ session_state = [s \in Sessions |-> [key \in {} |-> None]]
    /\ args = [s \in Sessions |-> NoArgs]
    /\ current_count = [s \in Sessions |-> 0]
    /\ returned = [s \in Sessions |-> None]
    /\ feedback_seq = Cardinality(db_feedback)

\* the sessions at stage p, holding the embeddings X and the argument k
Frames(p, X, k) ==
    /\ pc = p
    /\ embeddings = X
    /\ requested_k = k
    /\ user_id = [s \in Sessions |-> 0]
    /\ feedback_list = [s \in Sessions |-> <<>>]
    /\ model = [s \in Sessions |-> None]
    /\ kmeans_k = [s \in Sessions |-> <<>>]
    /\ labels = [s \in Sessions |-> <<>>]
    /\ features = [s \in Sessions |-> <<>>]
    /\ idx = [s \in Sessions |-> 0]
    /\ feature_count = [s \in Sessions |-> 0]
    /\ result = [s \in Sessions |-> NoResult]
    /\ fault = [s \in Sessions |-> None]
    /\ before = [s \in Sessions |-> {}]
    /\ cleared = [s \in Sessions |-> <<>>]
    /\ attempted = [s \in Sessions |-> {}]
    /\ written = [s \in Sessions |-> {}]
    /\ swallowed = [s \in Sessions |-> {}]

Idle ==
    /\ Fresh
    /\ Frames([s \in Sessions |-> "idle"], [s \in Sessions |-> <<>>],
              [s \in Sessions |-> <<>>])
    /\ NoCalls

Init ==
    /\ \E c \in [UserIds -> 0..MaxFeedback], batch \in BOOLEAN :
           db_feedback = FeedbackTable(c, batch)
    /\ Idle

\* the first user holds feedback, the others none yet
InitConc ==
    /\ db_feedback =
           FeedbackTable([u \in UserIds |-> IF u = 1 THEN MaxFeedback ELSE 0], FALSE)
    /\ Idle

----------------------------------------------------------------------------
(* run_clustering(user_id), one action per stage *)

NoFeedbackMessage == "No feedback found. Please add feedback first."
NotEnoughMessage ==
    "Not enough feedback to run clustering. Need at least "
        \o ToString(MIN_FEEDBACK_FOR_CLUSTERING) \o " items."
NoEmbeddingsMessage == "Failed to generate embeddings"
\* the message of the handler without str(e)
ErrorMessage_without_description(e) == "Error during clustering"

ErrorMessage(e) == "Error during clustering: " \o e
SuccessMessage(n) == "Successfully created " \o ToString(n) \o " feature clusters"

ModelLoadFault == "OSError: cannot load all-MiniLM-L6-v2"
EncodeFault == "RuntimeError: out of memory"
AggregateFault == "MemoryError"
DatabaseFault == "sqlite3.OperationalError: database is locked"

\* the environment fails once more
Inject ==
    /\ faults < MaxFaults
    /\ faults' = faults + 1

\* return success, message, feature_count
Return(s, success, message, n) ==
    /\ pc' = [pc EXCEPT ![s] = "done"]
    /\ result' = [result EXCEPT ![s] =
                     [success |-> success, message |-> message, feature_count |-> n]]

\* except Exception as e: return False, f"Error during clustering: {str(e)}", 0
Except(s, e) ==
    /\ fault' = [fault EXCEPT ![s] = e]
    /\ Return(s, FALSE, ErrorMessage(e), 0)

\* the stage is left for the next one, nothing returned or raised
Goto(s, stage) ==
    /\ pc' = [pc EXCEPT ![s] = stage]
    /\ UNCHANGED <<result, fault>>

\* app.py: the "Run AI Clustering" button of a session calls run_clustering
RunClustering(s, u) ==
    /\ pc[s] = "idle"
    /\ calls < MaxCalls
    /\ calls' = calls + 1
    /\ pc' = [pc EXCEPT ![s] = "fetch"]
    /\ user_id' = [user_id EXCEPT ![s] = u]
    /\ before' = [before EXCEPT ![s] = db_features]
    /\ UNCHANGED <<db, _model, constructed, faults>>
    /\ UNCHANGED <<feedback_list, model, embeddings, requested_k, kmeans_k, labels,
                   features, idx, feature_count, result>>
    /\ UNCHANGED <<fault, cleared, attempted, written, swallowed>>
    /\ UNCHANGED app

\* Step 1: feedback_list = get_user_feedback(user_id), which returns [] when
\* the query fails; "if not feedback_list" returns at once
GetUserFeedback(s) ==
    /\ pc[s] = "fetch"
    /\ \E fl \in get_user_feedback(user_id[s]) \cup {<<>>} :
           /\ \/ fl \in get_user_feedback(user_id[s]) /\ UNCHANGED <<faults, swallowed>>
              \/ /\ fl = <<>>
                 /\ Inject
                 /\ swallowed' = [swallowed EXCEPT ![s] = @ \cup {"get_user_feedback"}]
           /\ feedback_list' = [feedback_list EXCEPT ![s] = fl]
           /\ IF fl = <<>>
              THEN Return(s, FALSE, NoFeedbackMessage, 0) /\ UNCHANGED fault
              ELSE Goto(s, "check_minimum")
    /\ UNCHANGED <<db, _model, constructed, calls>>
    /\ UNCHANGED <<user_id, model, embeddings, requested_k, kmeans_k, labels, features,
                   idx, feature_count>>
    /\ UNCHANGED <<before, cleared, attempted, written>>
    /\ UNCHANGED app

\* the minimum check off by one
below_minimum_off_by_one(fl) == Len(fl) < MIN_FEEDBACK_FOR_CLUSTERING - 1

\* the minimum check passing every non-empty list
below_minimum_empty_only(fl) == fl = <<>>

\* len(feedback_list) < config.MIN_FEEDBACK_FOR_CLUSTERING
below_minimum(fl) == Len(fl) < MIN_FEEDBACK_FOR_CLUSTERING

\* Step 2 fetching the feedback again when there is too little of it
CheckMinimum_refetch(s) ==
    /\ pc[s] = "check_minimum"
    /\ IF below_minimum(feedback_list[s])
       THEN Goto(s, "fetch")
       ELSE Goto(s, "embed")
    /\ UNCHANGED <<db, proc>>
    /\ UNCHANGED <<user_id, feedback_list, model, embeddings, requested_k, kmeans_k,
                   labels, features, idx, feature_count>>
    /\ UNCHANGED <<before, cleared, attempted, written, swallowed>>
    /\ UNCHANGED app

\* Step 2: the minimum requirement
CheckMinimum(s) ==
    /\ pc[s] = "check_minimum"
    /\ IF below_minimum(feedback_list[s])
       THEN Return(s, FALSE, NotEnoughMessage, 0) /\ UNCHANGED fault
       ELSE Goto(s, "embed")
    /\ UNCHANGED <<db, proc>>
    /\ UNCHANGED <<user_id, feedback_list, model, embeddings, requested_k, kmeans_k,
                   labels, features, idx, feature_count>>
    /\ UNCHANGED <<before, cleared, attempted, written, swallowed>>
    /\ UNCHANGED app

\* Step 4, generate_embeddings up to load_model's test "if _model is None"
GenerateEmbeddings(s) ==
    /\ pc[s] = "embed"
    /\ IF feedback_list[s] = <<>>
       THEN \* np.array([]), and run_clustering's len(embeddings) == 0
            /\ Return(s, FALSE, NoEmbeddingsMessage, 0)
            /\ UNCHANGED <<model, fault>>
       ELSE IF _model = None
       THEN /\ Goto(s, "load_model")
            /\ UNCHANGED model
       ELSE /\ Goto(s, "encode")
            /\ model' = [model EXCEPT ![s] = _model]
    /\ UNCHANGED <<db, proc>>
    /\ UNCHANGED <<user_id, feedback_list, embeddings, requested_k, kmeans_k, labels,
                   features, idx, feature_count>>
    /\ UNCHANGED <<before, cleared, attempted, written, swallowed>>
    /\ UNCHANGED app

\* the instance a construction yields
SentenceTransformer(n) == "SentenceTransformer#" \o ToString(n)

\* load_model after the test found None:
\* _model = SentenceTransformer(config.MODEL_NAME); return _model
LoadModel(s) ==
    /\ pc[s] = "load_model"
    /\ \/ /\ Inject
          /\ Except(s, ModelLoadFault)
          /\ UNCHANGED <<_model, constructed, model>>
       \/ /\ constructed' = constructed + 1
          /\ _model' = SentenceTransformer(constructed + 1)
          /\ model' = [model EXCEPT ![s] = _model']
          /\ Goto(s, "encode")
          /\ UNCHANGED faults
    /\ UNCHANGED <<db, calls>>
    /\ UNCHANGED <<user_id, feedback_list, embeddings, requested_k, kmeans_k, labels,
                   features, idx, feature_count>>
    /\ UNCHANGED <<before, cleared, attempted, written, swallowed>>
    /\ UNCHANGED app

\* embeddings = model.encode([preprocess_text(text) for text in texts])
Encode(s) ==
    /\ pc[s] = "encode"
    /\ \/ /\ Inject
          /\ Except(s, EncodeFault)
          /\ UNCHANGED embeddings
       \/ /\ embeddings' = [embeddings EXCEPT ![s] =
                 encode([i \in 1..Len(feedback_list[s]) |->
                            preprocess_text(feedback_list[s][i].feedback_text)])]
          /\ Goto(s, "cluster")
          /\ UNCHANGED faults
    /\ UNCHANGED <<db, _model, constructed, calls>>
    /\ UNCHANGED <<user_id, feedback_list, model, requested_k, kmeans_k, labels,
                   features, idx, feature_count>>
    /\ UNCHANGED <<before, cleared, attempted, written, swallowed>>
    /\ UNCHANGED app

\* Step 5: labels = cluster_feedback(embeddings)
ClusterFeedback(s) ==
    /\ pc[s] = "cluster"
    /\ requested_k' = [requested_k EXCEPT ![s] = <<>>]
    /\ kmeans_k' = [kmeans_k EXCEPT ![s] =
                       <<effective_n_clusters(<<>>, Len(embeddings[s]))>>]
    /\ \E r \in cluster_feedback(embeddings[s], <<>>) :
           \/ /\ r.ok
              /\ labels' = [labels EXCEPT ![s] = r.labels]
              /\ Goto(s, "aggregate")
              /\ UNCHANGED faults
           \/ /\ ~r.ok
              /\ IF r.fault = InvalidParameter THEN UNCHANGED faults ELSE Inject
              /\ Except(s, r.fault)
              /\ UNCHANGED labels
    /\ UNCHANGED <<db, _model, constructed, calls>>
    /\ UNCHANGED <<user_id, feedback_list, model, embeddings, features, idx,
                   feature_count>>
    /\ UNCHANGED <<before, cleared, attempted, written, swallowed>>
    /\ UNCHANGED app

\* Step 6 with the old features cleared before the new ones are computed
GenerateFeatures_clear_first(s) ==
    /\ pc[s] = "aggregate"
    /\ db_features' = clear_user_features(user_id[s])
    /\ \/ /\ Inject
          /\ Except(s, AggregateFault)
          /\ UNCHANGED features
       \/ /\ features' = [features EXCEPT ![s] =
                 generate_features_from_clusters(feedback_list[s], labels[s])]
          /\ Goto(s, "clear")
          /\ UNCHANGED faults
    /\ UNCHANGED <<db_feedback, feature_seq, _model, constructed, calls>>
    /\ UNCHANGED <<user_id, feedback_list, model, embeddings, requested_k, kmeans_k,
                   labels, idx, feature_count>>
    /\ UNCHANGED <<before, cleared, attempted, written, swallowed>>
    /\ UNCHANGED app

\* Step 6: features = generate_features_from_clusters(feedback_list, labels)
GenerateFeatures(s) ==
    /\ pc[s] = "aggregate"
    /\ \/ /\ Inject
          /\ Except(s, AggregateFault)
          /\ UNCHANGED features
       \/ /\ features' = [features EXCEPT ![s] =
                 generate_features_from_clusters(feedback_list[s], labels[s])]
          /\ Goto(s, "clear")
          /\ UNCHANGED faults
    /\ UNCHANGED <<db, _model, constructed, calls>>
    /\ UNCHANGED <<user_id, feedback_list, model, embeddings, requested_k, kmeans_k,
                   labels, idx, feature_count>>
    /\ UNCHANGED <<before, cleared, attempted, written, swallowed>>
    /\ UNCHANGED app

\* Step 7: clear_user_features(user_id); its (success, message) is dropped.
\* The DELETE is committed, or fails and leaves the table as it was
ClearUserFeatures(s) ==
    /\ pc[s] = "clear"
    /\ \/ /\ db_features' = clear_user_features(user_id[s])
          /\ cleared' = [cleared EXCEPT ![s] = <<feature_seq>>]
          /\ UNCHANGED <<faults, swallowed>>
       \/ /\ Inject
          /\ swallowed' = [swallowed EXCEPT ![s] = @ \cup {"clear_user_features"}]
          /\ UNCHANGED <<db_features, cleared>>
    /\ Goto(s, "insert")
    /\ idx' = [idx EXCEPT ![s] = 1]
    /\ feature_count' = [feature_count EXCEPT ![s] = 0]
    /\ UNCHANGED <<db_feedback, feature_seq, _model, constructed, calls>>
    /\ UNCHANGED <<user_id, feedback_list, model, embeddings, requested_k, kmeans_k,
                   labels, features>>
    /\ UNCHANGED <<before, attempted, written>>
    /\ UNCHANGED app

\* Step 8 with the loop left at the first create_feature that fails
CreateFeature_break_on_failure(s) ==
    /\ pc[s] = "insert"
    /\ idx[s] <= Len(features[s])
    /\ LET feature == features[s][idx[s]]
       IN  \/ /\ db_features' =
                     create_feature(user_id[s], feature.feature_name, feature.reach)
              /\ feature_seq' = feature_seq + 1
              /\ feature_count' = [feature_count EXCEPT ![s] = @ + 1]
              /\ written' = [written EXCEPT ![s] = @ \cup {<<idx[s], feature_seq + 1>>}]
              /\ idx' = [idx EXCEPT ![s] = @ + 1]
              /\ UNCHANGED <<faults, swallowed>>
           \/ /\ Inject
              /\ swallowed' = [swallowed EXCEPT ![s] = @ \cup {"create_feature"}]
              /\ idx' = [idx EXCEPT ![s] = Len(features[s]) + 1]
              /\ UNCHANGED <<db_features, feature_seq, feature_count, written>>
    /\ attempted' = [attempted EXCEPT ![s] = @ \cup {idx[s]}]
    /\ UNCHANGED <<db_feedback, _model, constructed, calls>>
    /\ UNCHANGED <<pc, user_id, feedback_list, model, embeddings, requested_k, kmeans_k,
                   labels, features, result>>
    /\ UNCHANGED <<fault, before, cleared>>
    /\ UNCHANGED app

\* Step 8, one turn of the loop: create_feature(user_id, name, reach), and
\* feature_count += 1 when it reports success
CreateFeature(s) ==
    /\ pc[s] = "insert"
    /\ idx[s] <= Len(features[s])
    /\ LET feature == features[s][idx[s]]
       IN  \/ /\ db_features' =
                     create_feature(user_id[s], feature.feature_name, feature.reach)
              /\ feature_seq' = feature_seq + 1
              /\ feature_count' = [feature_count EXCEPT ![s] = @ + 1]
              /\ written' = [written EXCEPT ![s] = @ \cup {<<idx[s], feature_seq + 1>>}]
              /\ UNCHANGED <<faults, swallowed>>
           \/ /\ Inject
              /\ swallowed' = [swallowed EXCEPT ![s] = @ \cup {"create_feature"}]
              /\ UNCHANGED <<db_features, feature_seq, feature_count, written>>
    /\ attempted' = [attempted EXCEPT ![s] = @ \cup {idx[s]}]
    /\ idx' = [idx EXCEPT ![s] = @ + 1]
    /\ UNCHANGED <<db_feedback, _model, constructed, calls>>
    /\ UNCHANGED <<pc, user_id, feedback_list, model, embeddings, requested_k, kmeans_k,
                   labels, features, result>>
    /\ UNCHANGED <<fault, before, cleared>>
    /\ UNCHANGED app

\* return True, f"Successfully created {feature_count} feature clusters", feature_count
ReturnSuccess(s) ==
    /\ pc[s] = "insert"
    /\ idx[s] > Len(features[s])
    /\ Return(s, TRUE, SuccessMessage(feature_count[s]), feature_count[s])
    /\ UNCHANGED <<db, proc>>
    /\ UNCHANGED <<user_id, feedback_list, model, embeddings, requested_k, kmeans_k,
                   labels, features, idx, feature_count>>
    /\ UNCHANGED history
    /\ UNCHANGED app

\* app.py shows the result; the frame of the call is gone
Rerun(s) ==
    /\ pc[s] = "done"
    /\ pc' = [pc EXCEPT ![s] = "idle"]
    /\ user_id' = [user_id EXCEPT ![s] = 0]
    /\ feedback_list' = [feedback_list EXCEPT ![s] = <<>>]
    /\ model' = [model EXCEPT ![s] = None]
    /\ embeddings' = [embeddings EXCEPT ![s] = <<>>]
    /\ requested_k' = [requested_k EXCEPT ![s] = <<>>]
    /\ kmeans_k' = [kmeans_k EXCEPT ![s] = <<>>]
    /\ labels' = [labels EXCEPT ![s] = <<>>]
    /\ features' = [features EXCEPT ![s] = <<>>]
    /\ idx' = [idx EXCEPT ![s] = 0]
    /\ feature_count' = [feature_count EXCEPT ![s] = 0]
    /\ result' = [result EXCEPT ![s] = NoResult]
    /\ fault' = [fault EXCEPT ![s] = None]
    /\ before' = [before EXCEPT ![s] = {}]
    /\ cleared' = [cleared EXCEPT ![s] = <<>>]
    /\ attempted' = [attempted EXCEPT ![s] = {}]
    /\ written' = [written EXCEPT ![s] = {}]
    /\ swallowed' = [swallowed EXCEPT ![s] = {}]
    /\ UNCHANGED <<db, proc>>
    /\ UNCHANGED app

RunStep(s) ==
    \/ \E u \in UserIds : RunClustering(s, u)
    \/ GetUserFeedback(s)
    \/ CheckMinimum(s)
    \/ GenerateEmbeddings(s)
    \/ LoadModel(s)
    \/ Encode(s)
    \/ ClusterFeedback(s)
    \/ GenerateFeatures(s)
    \/ ClearUserFeatures(s)
    \/ CreateFeature(s)
    \/ ReturnSuccess(s)

\* one session: the runs follow one another
Next == RunStep(1) \/ Rerun(1)

Spec == Init /\ [][Next]_vars

\* the sessions of the process run concurrently, each showing its result
NextConc == \E s \in Sessions : RunStep(s)

SpecConc == InitConc /\ [][NextConc]_vars

----------------------------------------------------------------------------
(* cluster_feedback(embeddings, n_clusters) called on its own *)

\* the longest vector sequence, and the largest n_clusters, handed to it
MaxVectors == 3
MaxRequested == 6

Vectors == {<<"vec", preprocess_text(TextPool[t])>> : t \in 1..2}

InitCluster ==
    /\ db_feedback = {}
    /\ Fresh
    /\ \E n \in 1..MaxVectors, k \in {<<>>} \cup {<<r>> : r \in (-1)..MaxRequested} :
           \E X \in [1..n -> Vectors] :
               Frames([s \in Sessions |-> IF s = 1 THEN "cluster_feedback" ELSE "idle"],
                      [s \in Sessions |-> IF s = 1 THEN X ELSE <<>>],
                      [s \in Sessions |-> IF s = 1 THEN k ELSE <<>>])
    /\ NoCalls

\* cluster_feedback returns the labels, or the exception of KMeans leaves it
CallClusterFeedback(s) ==
    /\ pc[s] = "cluster_feedback"
    /\ kmeans_k' = [kmeans_k EXCEPT ![s] =
                       <<effective_n_clusters(requested_k[s], Len(embeddings[s]))>>]
    /\ \E r \in cluster_feedback(embeddings[s], requested_k[s]) :
           \/ /\ r.ok
              /\ labels' = [labels EXCEPT ![s] = r.labels]
              /\ pc' = [pc EXCEPT ![s] = "returned"]
              /\ UNCHANGED fault
           \/ /\ ~r.ok
              /\ fault' = [fault EXCEPT ![s] = r.fault]
              /\ pc' = [pc EXCEPT ![s] = "raised"]
              /\ UNCHANGED labels
    /\ UNCHANGED <<db, proc>>
    /\ UNCHANGED <<user_id, feedback_list, model, embeddings, requested_k, features,
                   idx, feature_count, result>>
    /\ UNCHANGED <<before, cleared, attempted, written, swallowed>>
    /\ UNCHANGED app

NextCluster == CallClusterFeedback(1)

SpecCluster == InitCluster /\ [][NextCluster]_vars

----------------------------------------------------------------------------
(* generate_features_from_clusters(feedback_list, labels) called on its own *)

\* the longest feedback list, and the largest label, handed to it
MaxItems == 5
MaxLabel == 2

\* n feedback dictionaries, the newest first
FeedbackDicts(n) ==
    [i \in 1..n |-> [id |-> n + 1 - i, feedback_text |-> TextPool[((i - 1) % Len(TextPool)) + 1],
                     created_at |-> n + 1 - i]]

InitAggregate ==
    /\ db_feedback = {}
    /\ Fresh
    /\ pc = [s \in Sessions |-> IF s = 1 THEN "generate_features" ELSE "idle"]
    /\ \E n \in 0..MaxItems :
           /\ feedback_list = [s \in Sessions |-> IF s = 1 THEN FeedbackDicts(n) ELSE <<>>]
           /\ \E l \in [1..n -> 0..MaxLabel] :
                  labels = [s \in Sessions |-> IF s = 1 THEN l ELSE <<>>]
    /\ embeddings = [s \in Sessions |-> <<>>]
    /\ requested_k = [s \in Sessions |-> <<>>]
    /\ user_id = [s \in Sessions |-> 0]
    /\ model = [s \in Sessions |-> None]
    /\ kmeans_k = [s \in Sessions |-> <<>>]
    /\ features = [s \in Sessions |-> <<>>]
    /\ idx = [s \in Sessions |-> 0]
    /\ feature_count = [s \in Sessions |-> 0]
    /\ result = [s \in Sessions |-> NoResult]
    /\ fault = [s \in Sessions |-> None]
    /\ before = [s \in Sessions |-> {}]
    /\ cleared = [s \in Sessions |-> <<>>]
    /\ attempted = [s \in Sessions |-> {}]
    /\ written = [s \in Sessions |-> {}]
    /\ swallowed = [s \in Sessions |-> {}]
    /\ NoCalls

CallGenerateFeatures(s) ==
    /\ pc[s] = "generate_features"
    /\ features' = [features EXCEPT ![s] =
           generate_features_from_clusters(feedback_list[s], labels[s])]
    /\ pc' = [pc EXCEPT ![s] = "returned"]
    /\ UNCHANGED <<db, proc>>
    /\ UNCHANGED <<user_id, feedback_list, model, embeddings, requested_k, kmeans_k,
                   labels, idx, feature_count, result>>
    /\ UNCHANGED history
    /\ UNCHANGED app

NextAggregate == CallGenerateFeatures(1)

SpecAggregate == InitAggregate /\ [][NextAggregate]_vars

----------------------------------------------------------------------------
(* cluster_feedback called twice on the same arguments *)

\* KMeans(..., random_state=42, ...): the seed, <<>> standing for None
random_state == <<42>>

\* the labels of the fits other sessions have returned from on the data and
\* the n_clusters of session s
earlier_fits(s) ==
    {labels[t] : t \in {t \in Sessions \ {s} :
                          /\ pc[t] = "returned"
                          /\ embeddings[t] = embeddings[s]
                          /\ kmeans_k[t] = <<effective_n_clusters(requested_k[s],
                                                                  Len(embeddings[s]))>>}}

\* a fit that draws fresh entropy on every call, as with random_state=None
fit_predict_unseeded(seed, outcomes, earlier) == outcomes

\* scikit-learn: with an int random_state the fit is reproducible, so a fit on
\* data and parameters an earlier fit had returns the labels of that fit (or
\* fails); with random_state=None every fit is seeded anew
fit_predict_seeded(seed, outcomes, earlier) ==
    IF seed = <<>> \/ earlier = {} THEN outcomes
    ELSE {r \in outcomes : ~r.ok \/ r.labels \in earlier}

\* both sessions hold the same vectors and the same n_clusters
InitRepeat ==
    /\ db_feedback = {}
    /\ Fresh
    /\ \E n \in 1..MaxVectors, k \in {<<>>} \cup {<<r>> : r \in (-1)..MaxRequested} :
           \E X \in [1..n -> Vectors] :
               Frames([s \in Sessions |-> "cluster_feedback"],
                      [s \in Sessions |-> X], [s \in Sessions |-> k])
    /\ NoCalls

\* one execution of cluster_feedback, from the call to the return or the raise
RepeatClusterFeedback(s) ==
    /\ pc[s] = "cluster_feedback"
    /\ kmeans_k' = [kmeans_k EXCEPT ![s] =
                       <<effective_n_clusters(requested_k[s], Len(embeddings[s]))>>]
    /\ \E r \in fit_predict_seeded(random_state,
                                   cluster_feedback(embeddings[s], requested_k[s]),
                                   earlier_fits(s)) :
           \/ /\ r.ok
              /\ labels' = [labels EXCEPT ![s] = r.labels]
              /\ pc' = [pc EXCEPT ![s] = "returned"]
              /\ UNCHANGED fault
           \/ /\ ~r.ok
              /\ fault' = [fault EXCEPT ![s] = r.fault]
              /\ pc' = [pc EXCEPT ![s] = "raised"]
              /\ UNCHANGED labels
    /\ UNCHANGED <<db, proc>>
    /\ UNCHANGED <<user_id, feedback_list, model, embeddings, requested_k, features,
                   idx, feature_count, result>>
    /\ UNCHANGED <<before, cleared, attempted, written, swallowed>>
    /\ UNCHANGED app

NextRepeat == \E s \in Sessions : RepeatClusterFeedback(s)

SpecRepeat == InitRepeat /\ [][NextRepeat]_vars

----------------------------------------------------------------------------
(* generate_embeddings(texts) and load_model() called on their own, one call
   after the other *)

\* the longest list of texts handed to generate_embeddings, and the number of
\* calls in one behaviour
MaxTexts == 2
MaxEmbedCalls == 3

\* the lists of texts of length n
TextLists(n) ==
    {[i \in 1..n |-> [id |-> i, feedback_text |-> TextPool[t[i]], created_at |-> i]] :
         t \in [1..n -> 1..Len(TextPool)]}

\* load_model constructing the model on every call
load_model_reloading(m, c) ==
    [model |-> SentenceTransformer(c + 1), constructed |-> c + 1]

\* load_model() with _model = m after c constructions: the instance it
\* returns (and leaves in _model), and the constructions after the call
load_model(m, c) ==
    IF m = None
    THEN [model |-> SentenceTransformer(c + 1), constructed |-> c + 1]
    ELSE [model |-> m, constructed |-> c]

\* generate_embeddings without its test "if not texts"
generate_embeddings_unguarded(texts, m, c) ==
    LET loaded == load_model(m, c)
    IN  [embeddings |-> encode([i \in 1..Len(texts) |->
                                   preprocess_text(texts[i].feedback_text)]),
         model |-> loaded.model, _model |-> loaded.model,
         constructed |-> loaded.constructed]

\* generate_embeddings(texts) with _model = m after c constructions: the
\* embeddings returned, the local model, and _model and the constructions
\* after the call
generate_embeddings(texts, m, c) ==
    IF texts = <<>>
    THEN [embeddings |-> <<>>, model |-> None, _model |-> m, constructed |-> c]
    ELSE LET loaded == load_model(m, c)
         IN  [embeddings |-> encode([i \in 1..Len(texts) |->
                                        preprocess_text(texts[i].feedback_text)]),
              model |-> loaded.model, _model |-> loaded.model,
              constructed |-> loaded.constructed]

InitEmbed ==
    /\ db_feedback = {}
    /\ Idle

\* a caller with no call in progress makes the next call, of
\* generate_embeddings on some texts or of load_model
EmbedCall(s) ==
    /\ pc[s] \in {"idle", "returned", "loaded", "raised"}
    /\ \A t \in Sessions : pc[t] \in {"idle", "returned", "loaded", "raised"}
    /\ calls < MaxEmbedCalls
    /\ calls' = calls + 1
    /\ \/ /\ pc' = [pc EXCEPT ![s] = "generate_embeddings"]
          /\ \E n \in 0..MaxTexts : \E texts \in TextLists(n) :
                 feedback_list' = [feedback_list EXCEPT ![s] = texts]
       \/ /\ pc' = [pc EXCEPT ![s] = "call_load_model"]
          /\ feedback_list' = [feedback_list EXCEPT ![s] = <<>>]
    /\ model' = [model EXCEPT ![s] = None]
    /\ embeddings' = [embeddings EXCEPT ![s] = <<>>]
    /\ fault' = [fault EXCEPT ![s] = None]
    /\ UNCHANGED <<db, _model, constructed, faults>>
    /\ UNCHANGED <<user_id, requested_k, kmeans_k, labels, features, idx, feature_count,
                   result>>
    /\ UNCHANGED <<before, cleared, attempted, written, swallowed>>
    /\ UNCHANGED app

\* load_model(), from the call to the return or the raise
CallLoadModel(s) ==
    /\ pc[s] = "call_load_model"
    /\ \/ /\ _model = None
          /\ Inject
          /\ fault' = [fault EXCEPT ![s] = ModelLoadFault]
          /\ pc' = [pc EXCEPT ![s] = "raised"]
          /\ UNCHANGED <<_model, constructed, model>>
       \/ /\ LET loaded == load_model(_model, constructed)
             IN  /\ _model' = loaded.model
                 /\ constructed' = loaded.constructed
                 /\ model' = [model EXCEPT ![s] = loaded.model]
          /\ pc' = [pc EXCEPT ![s] = "loaded"]
          /\ UNCHANGED <<faults, fault>>
    /\ UNCHANGED <<db, calls>>
    /\ UNCHANGED <<user_id, feedback_list, embeddings, requested_k, kmeans_k, labels,
                   features, idx, feature_count, result>>
    /\ UNCHANGED <<before, cleared, attempted, written, swallowed>>
    /\ UNCHANGED app

\* generate_embeddings(texts), from the call to the return or the raise
CallGenerateEmbeddings(s) ==
    /\ pc[s] = "generate_embeddings"
    /\ \/ \* SentenceTransformer(...) raises
          /\ feedback_list[s] # <<>> /\ _model = None
          /\ Inject
          /\ fault' = [fault EXCEPT ![s] = ModelLoadFault]
          /\ pc' = [pc EXCEPT ![s] = "raised"]
          /\ UNCHANGED <<_model, constructed, model, embeddings>>
       \/ \* model.encode raises, after load_model has returned
          /\ feedback_list[s] # <<>>
          /\ Inject
          /\ LET loaded == load_model(_model, constructed)
             IN  /\ _model' = loaded.model
                 /\ constructed' = loaded.constructed
                 /\ model' = [model EXCEPT ![s] = loaded.model]
          /\ fault' = [fault EXCEPT ![s] = EncodeFault]
          /\ pc' = [pc EXCEPT ![s] = "raised"]
          /\ UNCHANGED embeddings
       \/ /\ LET r == generate_embeddings(feedback_list[s], _model, constructed)
             IN  /\ embeddings' = [embeddings EXCEPT ![s] = r.embeddings]
                 /\ model' = [model EXCEPT ![s] = r.model]
                 /\ _model' = r._model
                 /\ constructed' = r.constructed
          /\ pc' = [pc EXCEPT ![s] = "returned"]
          /\ UNCHANGED <<faults, fault>>
    /\ UNCHANGED <<db, calls>>
    /\ UNCHANGED <<user_id, feedback_list, requested_k, kmeans_k, labels, features, idx,
                   feature_count, result>>
    /\ UNCHANGED <<before, cleared, attempted, written, swallowed>>
    /\ UNCHANGED app

NextEmbed == \E s \in Sessions : EmbedCall(s) \/ CallLoadModel(s) \/ CallGenerateEmbeddings(s)

SpecEmbed == InitEmbed /\ [][NextEmbed]_vars

----------------------------------------------------------------------------
(* generate_features_from_clusters on raw texts of every length around the
   truncation cutoff *)

\* the longest feedback list whose features are named
MaxNamed == 3

\* a text of n characters c
LongText(c, n) == [i \in 1..n |-> c]

\* raw feedback texts: short ones, two of them of the same length, and long
\* ones at the cutoff, just above it (two of the same length) and well above
RawTexts ==
    << <<"b", "u", "g">>, <<"X", "\t", "a">>, <<"F", "i", "x", " ", "i", "t">>,
       LongText("a", 100), LongText("b", 101), LongText("c", 101), LongText("d", 150),
       LongText("e", 201) >>

InitNames ==
    /\ db_feedback = {}
    /\ Fresh
    /\ \E n \in 1..MaxNamed :
           \E t \in [1..n -> 1..Len(RawTexts)], l \in [1..n -> 0..1] :
               /\ feedback_list =
                      [s \in Sessions |->
                          IF s = 1
                          THEN [i \in 1..n |-> [id |-> n + 1 - i,
                                                feedback_text |-> RawTexts[t[i]],
                                                created_at |-> n + 1 - i]]
                          ELSE <<>>]
               /\ labels = [s \in Sessions |-> IF s = 1 THEN l ELSE <<>>]
    /\ pc = [s \in Sessions |-> IF s = 1 THEN "generate_features" ELSE "idle"]
    /\ embeddings = [s \in Sessions |-> <<>>]
    /\ requested_k = [s \in Sessions |-> <<>>]
    /\ user_id = [s \in Sessions |-> 0]
    /\ model = [s \in Sessions |-> None]
    /\ kmeans_k = [s \in Sessions |-> <<>>]
    /\ features = [s \in Sessions |-> <<>>]
    /\ idx = [s \in Sessions |-> 0]
    /\ feature_count = [s \in Sessions |-> 0]
    /\ result = [s \in Sessions |-> NoResult]
    /\ fault = [s \in Sessions |-> None]
    /\ before = [s \in Sessions |-> {}]
    /\ cleared = [s \in Sessions |-> <<>>]
    /\ attempted = [s \in Sessions |-> {}]
    /\ written = [s \in Sessions |-> {}]
    /\ swallowed = [s \in Sessions |-> {}]
    /\ NoCalls

SpecNames == InitNames /\ [][NextAggregate]_vars

----------------------------------------------------------------------------
(* preprocess_text(text) called on its own *)

\* the longest raw text handed to it
MaxChars == 4

\* raw texts: upper and lower case letters, spaces, tabs and newlines
RawStrings == UNION {[1..n -> {"A", "b"} \cup Whitespace] : n \in 0..MaxChars}

InitText ==
    /\ db_feedback = {}
    /\ Fresh
    /\ Frames([s \in Sessions |-> IF s = 1 THEN "preprocess_text" ELSE "idle"],
              [s \in Sessions |-> <<>>], [s \in Sessions |-> <<>>])
    /\ session_state = [s \in Sessions |-> [key \in {} |-> None]]
    /\ \E text \in RawStrings :
           args = [s \in Sessions |->
                      IF s = 1 THEN [fn |-> "preprocess_text", text |-> text] ELSE NoArgs]
    /\ current_count = [s \in Sessions |-> 0]
    /\ returned = [s \in Sessions |-> None]
    /\ feedback_seq = 0

CallPreprocessText(s) ==
    /\ pc[s] = "preprocess_text"
    /\ returned' = [returned EXCEPT ![s] = preprocess_text(args[s].text)]
    /\ pc' = [pc EXCEPT ![s] = "returned"]
    /\ UNCHANGED <<db, proc>>
    /\ UNCHANGED <<user_id, feedback_list, model, embeddings, requested_k, kmeans_k,
                   labels, features, idx, feature_count, result>>
    /\ UNCHANGED history
    /\ UNCHANGED <<session_state, args, current_count, feedback_seq>>

NextText == CallPreprocessText(1)

SpecText == InitText /\ [][NextText]_vars

----------------------------------------------------------------------------
(* the labelling of one group: get_representative_text and the reach, as in *)
(* a turn of the loop of generate_features_from_clusters                    *)

\* the longest list of feedback texts a group is taken from
MaxGroupTexts == 3

\* feedback texts: short ones, one above the cutoff, and one that reads like
\* the placeholder
GroupTexts ==
    << <<"b", "u", "g">>, <<"X", "\t", "a">>, LongText("b", 101), Unnamed >>

InitLabel ==
    /\ db_feedback = {}
    /\ Fresh
    /\ Frames([s \in Sessions |-> IF s = 1 THEN "label" ELSE "idle"],
              [s \in Sessions |-> <<>>], [s \in Sessions |-> <<>>])
    /\ session_state = [s \in Sessions |-> [key \in {} |-> None]]
    /\ \E n \in 0..MaxGroupTexts :
           \E t \in [1..n -> 1..Len(GroupTexts)], group \in SUBSET (1..n) :
               args = [s \in Sessions |->
                          IF s = 1
                          THEN [fn |-> "get_representative_text",
                                feedback_texts |-> [i \in 1..n |-> GroupTexts[t[i]]],
                                cluster_indices |-> ascending(group)]
                          ELSE NoArgs]
    /\ current_count = [s \in Sessions |-> 0]
    /\ returned = [s \in Sessions |-> None]
    /\ feedback_seq = 0

\* feature_name = get_representative_text(feedback_texts, cluster_indices)
\* reach = len(cluster_indices)
CallLabel(s) ==
    /\ pc[s] = "label"
    /\ returned' = [returned EXCEPT ![s] =
                       feature_dict(args[s].feedback_texts, args[s].cluster_indices, 0)]
    /\ pc' = [pc EXCEPT ![s] = "returned"]
    /\ UNCHANGED <<db, proc>>
    /\ UNCHANGED <<user_id, feedback_list, model, embeddings, requested_k, kmeans_k,
                   labels, features, idx, feature_count, result>>
    /\ UNCHANGED history
    /\ UNCHANGED <<session_state, args, current_count, feedback_seq>>

NextLabel == CallLabel(1)

SpecLabel == InitLabel /\ [][NextLabel]_vars

----------------------------------------------------------------------------
(* src/feedback/feedback_processor.py: submit_feedback, process_csv and    *)
(* delete_feedback_item over table feedback, called from the sessions       *)

MAX_FEEDBACK_PER_USER == 2000

\* calls the sessions make in one behaviour
MaxFeedbackCalls == 2

\* what a user types into the form: nothing, whitespace, nine characters in
\* whitespace, ten characters in whitespace
FeedbackTexts ==
    {<<>>, <<" ", "\n">>, <<" ">> \o LongText("x", 9) \o <<" ">>,
     <<" ">> \o LongText("x", 10) \o <<"\n">>}

\* the cells of a CSV column: <<>> is NaN, <<text>> a text
CellLists ==
    {<< <<>>, <<>> >>,
     << <<LongText("y", 9)>>, <<>> >>,
     << <<LongText("y", 10)>> >>,
     << <<LongText("y", 10)>>, <<>>, <<LongText("y", 9)>>,
        << <<" ">> \o LongText("z", 11) >> >>}

feedback == <<"f", "e", "e", "d", "b", "a", "c", "k">>

\* what pd.read_csv(uploaded_file) ends in: an exception, or a DataFrame of
\* named columns
UploadedFiles ==
    {[raises |-> e] : e \in {"EmptyDataError", "ParserError", "UnicodeDecodeError"}}
    \cup {[raises |-> None, columns |-> << <<"i", "d">> >>, cells |-> << <<>> >>],
          [raises |-> None, columns |-> << <<"i", "d">> >>,
           cells |-> << << <<"7">> >> >>]}
    \cup {[raises |-> None,
           columns |-> << <<"i", "d">>, <<"F", "e", "e", "d", "b", "a", "c", "k">> >>,
           cells |-> << [i \in 1..Len(c) |-> <<"7">>], c >>] : c \in CellLists}

\* validate_csv(df): is_valid, message, and the position of feedback_col
validate_csv(df) ==
    IF \A c \in 1..Len(df.columns) : df.cells[c] = <<>>
    THEN [is_valid |-> FALSE, message |-> "CSV file is empty", feedback_col |-> 0]
    ELSE LET matching == {c \in 1..Len(df.columns) :
                             [i \in 1..Len(df.columns[c]) |-> lower(df.columns[c][i])]
                                 = feedback}
         IN  IF matching = {}
             THEN [is_valid |-> FALSE, message |-> "CSV must contain a 'feedback' column",
                   feedback_col |-> 0]
             ELSE LET feedback_col == CHOOSE c \in matching : \A d \in matching : c <= d
                      non_empty == Cardinality({i \in 1..Len(df.cells[feedback_col]) :
                                                   df.cells[feedback_col][i] # <<>>})
                  IN  IF non_empty = 0
                      THEN [is_valid |-> FALSE, message |-> "The 'feedback' column is empty",
                            feedback_col |-> 0]
                      ELSE [is_valid |-> TRUE,
                            message |-> "Found " \o ToString(non_empty)
                                            \o " feedback entries",
                            feedback_col |-> feedback_col]

\* df[feedback_col].dropna().astype(str).tolist(), without the texts of
\* fewer than 10 characters
csv_feedback_list(df, feedback_col) ==
    LET present(cell) == cell # <<>>
        long_enough(f) == Len(strip(f)) >= 10
        texts == SelectSeq(df.cells[feedback_col], present)
    IN  SelectSeq([i \in 1..Len(texts) |-> texts[i][1]], long_enough)

\* SELECT COUNT(*) FROM feedback WHERE user_id = ?
get_feedback_count(u) == Cardinality({r \in db_feedback : r.user_id = u})

\* current_count >= config.MAX_FEEDBACK_PER_USER
limit_reached(count) == count >= MAX_FEEDBACK_PER_USER

LimitReachedMessage ==
    "Feedback limit reached (" \o ToString(MAX_FEEDBACK_PER_USER)
        \o "). Please delete some entries."

CannotImportMessage(n, count) ==
    "Cannot import " \o ToString(n) \o " items. Only "
        \o ToString(MAX_FEEDBACK_PER_USER - count) \o " slots remaining (limit: "
        \o ToString(MAX_FEEDBACK_PER_USER) \o ")."

\* rows n new rows of user u take: the next ids, one timestamp for the statement
new_feedback_rows(u, texts) ==
    {[id |-> feedback_seq + i, user_id |-> u, feedback_text |-> strip(texts[i]),
      created_at |-> feedback_seq + 1] : i \in 1..Len(texts)}

\* the earlier use of the application: c[u] rows of user u
StoredFeedback(c) ==
    LET first(u) == IF u = 1 THEN 0 ELSE c[1]
    IN  UNION {{[id |-> first(u) + j, user_id |-> u,
                 feedback_text |-> LongText("w", 10), created_at |-> first(u) + j]
                : j \in 1..c[u]} : u \in UserIds}

\* the first user is at the limit or next to it
InitFeedback ==
    /\ \E n \in (MAX_FEEDBACK_PER_USER - 2)..MAX_FEEDBACK_PER_USER :
           db_feedback = StoredFeedback([u \in UserIds |-> IF u = 1 THEN n ELSE 1])
    /\ Idle

\* the call of session s returns value
Finish(s, value) ==
    /\ pc' = [pc EXCEPT ![s] = "returned"]
    /\ returned' = [returned EXCEPT ![s] = value]

\* session s makes the next call, with the arguments a
Call(s, a) ==
    /\ pc[s] \in {"idle", "returned"}
    /\ calls < MaxFeedbackCalls
    /\ calls' = calls + 1
    /\ args' = [args EXCEPT ![s] = a]

\* current_count = get_feedback_count(user_id): the number of rows, or 0
\* when the query fails
GetFeedbackCount(s, u, count) ==
    /\ \/ /\ count = get_feedback_count(u)
          /\ UNCHANGED <<faults, swallowed>>
       \/ /\ count = 0
          /\ Inject
          /\ swallowed' = [swallowed EXCEPT ![s] = @ \cup {"get_feedback_count"}]
    /\ current_count' = [current_count EXCEPT ![s] = count]

\* submit_feedback(user_id, feedback_text) up to the call of create_feedback
SubmitFeedback(s) ==
    /\ \E u \in UserIds, feedback_text \in FeedbackTexts :
           /\ Call(s, [fn |-> "submit_feedback", call |-> calls + 1, user_id |-> u,
                       feedback_text |-> feedback_text])
           /\ IF strip(feedback_text) = <<>>
              THEN /\ Finish(s, <<FALSE, "Please enter feedback text">>)
                   /\ UNCHANGED <<current_count, faults, swallowed>>
              ELSE IF Len(strip(feedback_text)) < 10
              THEN /\ Finish(s, <<FALSE, "Feedback must be at least 10 characters long">>)
                   /\ UNCHANGED <<current_count, faults, swallowed>>
              ELSE \E count \in {get_feedback_count(u), 0} :
                       /\ GetFeedbackCount(s, u, count)
                       /\ IF limit_reached(count)
                          THEN Finish(s, <<FALSE, LimitReachedMessage>>)
                          ELSE /\ pc' = [pc EXCEPT ![s] = "create_feedback"]
                               /\ UNCHANGED returned
    /\ UNCHANGED <<db, _model, constructed>>
    /\ UNCHANGED <<user_id, feedback_list, model, embeddings, requested_k, kmeans_k,
                   labels, features, idx, feature_count, result>>
    /\ UNCHANGED <<fault, before, cleared, attempted, written>>
    /\ UNCHANGED <<session_state, feedback_seq>>

\* create_feedback(user_id, feedback_text), and submit_feedback returns
\* its success and message
CreateFeedback(s) ==
    /\ pc[s] = "create_feedback"
    /\ \/ /\ db_feedback' = db_feedback
                 \cup new_feedback_rows(args[s].user_id, <<args[s].feedback_text>>)
          /\ feedback_seq' = feedback_seq + 1
          /\ Finish(s, <<TRUE, "Feedback added successfully">>)
          /\ UNCHANGED <<faults, swallowed>>
       \/ /\ Inject
          /\ swallowed' = [swallowed EXCEPT ![s] = @ \cup {"create_feedback"}]
          /\ Finish(s, <<FALSE, "Error adding feedback: " \o DatabaseFault>>)
          /\ UNCHANGED <<db_feedback, feedback_seq>>
    /\ UNCHANGED <<db_features, feature_seq, _model, constructed, calls>>
    /\ UNCHANGED <<user_id, feedback_list, model, embeddings, requested_k, kmeans_k,
                   labels, features, idx, feature_count, result>>
    /\ UNCHANGED <<fault, before, cleared, attempted, written>>
    /\ UNCHANGED <<session_state, args, current_count>>

\* process_csv(user_id, uploaded_file) up to the call of create_feedback_batch
ProcessCsv(s) ==
    /\ \E u \in UserIds, df \in UploadedFiles :
           /\ Call(s, [fn |-> "process_csv", call |-> calls + 1, user_id |-> u,
                       uploaded_file |-> df])
           /\ IF df.raises # None
              THEN /\ Finish(s, <<FALSE,
                                  CASE df.raises = "EmptyDataError" -> "CSV file is empty"
                                    [] df.raises = "ParserError" -> "Invalid CSV format"
                                    [] OTHER -> "Error processing CSV: " \o df.raises,
                                  0>>)
                   /\ UNCHANGED <<feedback_list, current_count, faults, swallowed>>
              ELSE IF ~validate_csv(df).is_valid
              THEN /\ Finish(s, <<FALSE, validate_csv(df).message, 0>>)
                   /\ UNCHANGED <<feedback_list, current_count, faults, swallowed>>
              ELSE LET texts == csv_feedback_list(df, validate_csv(df).feedback_col)
                   IN  /\ feedback_list' = [feedback_list EXCEPT ![s] = texts]
                       /\ IF texts = <<>>
                          THEN /\ Finish(s, <<FALSE,
                                      "No valid feedback found (minimum 10 characters each)",
                                      0>>)
                               /\ UNCHANGED <<current_count, faults, swallowed>>
                          ELSE \E count \in {get_feedback_count(u), 0} :
                                   /\ GetFeedbackCount(s, u, count)
                                   /\ IF limit_reached(count)
                                      THEN Finish(s, <<FALSE, LimitReachedMessage, 0>>)
                                      ELSE IF count + Len(texts) > MAX_FEEDBACK_PER_USER
                                      THEN Finish(s, <<FALSE,
                                               CannotImportMessage(Len(texts), count), 0>>)
                                      ELSE /\ pc' = [pc EXCEPT ![s] =
                                                        "create_feedback_batch"]
                                           /\ UNCHANGED returned
    /\ UNCHANGED <<db, _model, constructed>>
    /\ UNCHANGED <<user_id, model, embeddings, requested_k, kmeans_k, labels, features,
                   idx, feature_count, result>>
    /\ UNCHANGED <<fault, before, cleared, attempted, written>>
    /\ UNCHANGED <<session_state, feedback_seq>>

\* create_feedback_batch(user_id, feedback_list), and process_csv returns
\* its success, message and count
CreateFeedbackBatch(s) ==
    /\ pc[s] = "create_feedback_batch"
    /\ \/ /\ db_feedback' = db_feedback
                 \cup new_feedback_rows(args[s].user_id, feedback_list[s])
          /\ feedback_seq' = feedback_seq + Len(feedback_list[s])
          /\ Finish(s, <<TRUE,
                         "Successfully imported " \o ToString(Len(feedback_list[s]))
                             \o " feedback entries",
                         Len(feedback_list[s])>>)
          /\ UNCHANGED <<faults, swallowed>>
       \/ /\ Inject
          /\ swallowed' = [swallowed EXCEPT ![s] = @ \cup {"create_feedback_batch"}]
          /\ Finish(s, <<FALSE, "Error importing feedback: " \o DatabaseFault, 0>>)
          /\ UNCHANGED <<db_feedback, feedback_seq>>
    /\ UNCHANGED <<db_features, feature_seq, _model, constructed, calls>>
    /\ UNCHANGED <<user_id, feedback_list, model, embeddings, requested_k, kmeans_k,
                   labels, features, idx, feature_count, result>>
    /\ UNCHANGED <<fault, before, cleared, attempted, written>>
    /\ UNCHANGED <<session_state, args, current_count>>

\* a DELETE that leaves the owner out of its WHERE clause
delete_feedback_any_owner(feedback_id, u) ==
    {r \in db_feedback : r.id # feedback_id}

\* DELETE FROM feedback WHERE id = ? AND user_id = ?
delete_feedback(feedback_id, u) ==
    {r \in db_feedback : ~(r.id = feedback_id /\ r.user_id = u)}

\* delete_feedback_item(feedback_id, user_id): the oldest row, the newest
\* row, or a row that was never stored
DeleteFeedbackItem(s) ==
    /\ \E u \in UserIds, feedback_id \in {0, 1, feedback_seq} :
           /\ Call(s, [fn |-> "delete_feedback_item", call |-> calls + 1,
                       feedback_id |-> feedback_id, user_id |-> u])
           /\ \/ /\ db_feedback' = delete_feedback(feedback_id, u)
                 /\ IF db_feedback' = db_feedback
                    THEN Finish(s, <<FALSE, "Feedback not found or unauthorized">>)
                    ELSE Finish(s, <<TRUE, "Feedback deleted successfully">>)
                 /\ UNCHANGED <<faults, swallowed>>
              \/ /\ Inject
                 /\ swallowed' = [swallowed EXCEPT ![s] = @ \cup {"delete_feedback"}]
                 /\ Finish(s, <<FALSE, "Error deleting feedback: " \o DatabaseFault>>)
                 /\ UNCHANGED db_feedback
    /\ UNCHANGED <<db_features, feature_seq, _model, constructed>>
    /\ UNCHANGED <<user_id, feedback_list, model, embeddings, requested_k, kmeans_k,
                   labels, features, idx, feature_count, result>>
    /\ UNCHANGED <<fault, before, cleared, attempted, written>>
    /\ UNCHANGED <<session_state, current_count, feedback_seq>>

FeedbackStep(s) ==
    \/ SubmitFeedback(s)
    \/ CreateFeedback(s)
    \/ ProcessCsv(s)
    \/ CreateFeedbackBatch(s)
    \/ DeleteFeedbackItem(s)

NextFeedback == \E s \in Sessions : FeedbackStep(s)

SpecFeedback == InitFeedback /\ [][NextFeedback]_vars

----------------------------------------------------------------------------
(* src/scoring/rice_scoring.py: score_feature over table features.          *)
(* An optional integer is <<>> for None and <<k>> for k; rice_score, a      *)
(* number of two decimals, is counted in hundredths.                        *)

DEFAULT_CONFIDENCE == 80

\* score_feature calls in one behaviour
MaxScoreCalls == 2

\* the nearest integer to n / d, ties to even, for n >= 0 and d > 0
round(n, d) ==
    LET q == n \div d
        r == n % d
    IN  IF 2 * r > d \/ (2 * r = d /\ q % 2 = 1) THEN q + 1 ELSE q

\* calculate_rice_score(reach, impact, confidence, effort), in hundredths:
\* round(reach * impact * (confidence / 100.0) / effort, 2)
calculate_rice_score(reach, impact, confidence, effort) ==
    IF effort = 0 THEN 0
    ELSE round(reach * impact * confidence, effort)

\* str() of a float of two decimals given in hundredths: 2400 is "24.0",
\* 240 is "2.4", 5 is "0.05"
format_rice(h) ==
    ToString(h \div 100) \o "."
        \o (IF h % 10 = 0 THEN ToString((h % 100) \div 10)
            ELSE ToString((h % 100) \div 10) \o ToString(h % 10))

\* validate_impact, validate_effort (what = "Impact", "Effort"). The arguments
\* are the integers of the signature, or None: int() of an integer is that
\* integer and raises nothing, so "must be a number" is never returned
validate_score(what, value) ==
    IF value = <<>> THEN [is_valid |-> FALSE, message |-> what \o " is required"]
    ELSE IF value[1] < 1 \/ value[1] > 5
    THEN [is_valid |-> FALSE, message |-> what \o " must be between 1 and 5"]
    ELSE [is_valid |-> TRUE, message |-> ""]

validate_confidence(confidence) ==
    IF confidence = <<>> THEN [is_valid |-> FALSE, message |-> "Confidence is required"]
    ELSE IF confidence[1] < 0 \/ confidence[1] > 100
    THEN [is_valid |-> FALSE, message |-> "Confidence must be between 0 and 100"]
    ELSE [is_valid |-> TRUE, message |-> ""]

\* a WHERE clause that leaves the owner out
feature_with_id(feature_id, u) == {r \in db_features : r.id = feature_id}

\* WHERE id = ? AND user_id = ?
feature_of_user(feature_id, u) ==
    {r \in db_features : r.id = feature_id /\ r.user_id = u}

\* UPDATE features SET impact = ?, effort = ?, confidence = ?, rice_score = ?
\* WHERE id = ? AND user_id = ?
update_feature_score(feature_id, u, impact, effort, confidence, rice_score) ==
    {IF r \in feature_of_user(feature_id, u)
     THEN [r EXCEPT !.impact = impact, !.effort = effort, !.confidence = confidence,
                    !.rice_score = rice_score]
     ELSE r : r \in db_features}

\* cursor.rowcount of that UPDATE
rowcount(feature_id, u) == Cardinality(feature_of_user(feature_id, u))

\* SELECT ... FROM features WHERE user_id = ? AND rice_score IS NOT NULL
\* AND rice_score > 0 (the rows, whatever their order)
get_prioritized_features(u) ==
    {r \in db_features : r.user_id = u /\ r.rice_score > 0}

\* the scores a caller may pass: None, the ends of the range and their
\* neighbours
Scores == {<<>>} \cup {<<k>> : k \in {0, 1, 5, 6}}
Confidences == {<<>>} \cup {<<k>> : k \in {-1, 0, 100, 101}}

\* score_feature(feature_id, user_id, reach, impact, effort, confidence)
ScoreFeature(s) ==
    /\ pc[s] \in {"idle", "returned"}
    /\ calls < MaxScoreCalls
    /\ calls' = calls + 1
    /\ \E feature_id \in 1..(feature_seq + 1) \ {2}, u \in UserIds, reach \in {1, 2},
          impact \in Scores, effort \in Scores, given \in Confidences :
           LET confidence == IF given = <<>> THEN <<DEFAULT_CONFIDENCE>> ELSE given
           IN  /\ args' = [args EXCEPT ![s] =
                              [fn |-> "score_feature", call |-> calls + 1,
                               feature_id |-> feature_id, user_id |-> u, reach |-> reach,
                               impact |-> impact, effort |-> effort,
                               confidence |-> given]]
               /\ IF ~validate_score("Impact", impact).is_valid
                  THEN /\ Finish(s, <<FALSE, validate_score("Impact", impact).message, <<>> >>)
                       /\ UNCHANGED <<db_features, faults, swallowed>>
                  ELSE IF ~validate_score("Effort", effort).is_valid
                  THEN /\ Finish(s, <<FALSE, validate_score("Effort", effort).message, <<>> >>)
                       /\ UNCHANGED <<db_features, faults, swallowed>>
                  ELSE IF ~validate_confidence(confidence).is_valid
                  THEN /\ Finish(s, <<FALSE, validate_confidence(confidence).message, <<>> >>)
                       /\ UNCHANGED <<db_features, faults, swallowed>>
                  ELSE LET rice_score == calculate_rice_score(reach, impact[1],
                                                              confidence[1], effort[1])
                       IN  \/ /\ rowcount(feature_id, u) = 0
                              /\ Finish(s, <<FALSE, "Feature not found or unauthorized",
                                             <<>> >>)
                              /\ UNCHANGED <<db_features, faults, swallowed>>
                           \/ /\ rowcount(feature_id, u) # 0
                              /\ db_features' =
                                     update_feature_score(feature_id, u, impact[1],
                                                          effort[1], confidence[1],
                                                          rice_score)
                              /\ Finish(s, <<TRUE,
                                             "Feature scored: RICE = "
                                                 \o format_rice(rice_score),
                                             <<rice_score>> >>)
                              /\ UNCHANGED <<faults, swallowed>>
                           \/ /\ Inject
                              /\ swallowed' = [swallowed EXCEPT ![s] =
                                                  @ \cup {"update_feature_score"}]
                              /\ Finish(s, <<FALSE,
                                             "Error updating feature score: "
                                                 \o DatabaseFault,
                                             <<>> >>)
                              /\ UNCHANGED db_features
    /\ UNCHANGED <<db_feedback, feature_seq, _model, constructed>>
    /\ UNCHANGED <<user_id, feedback_list, model, embeddings, requested_k, kmeans_k,
                   labels, features, idx, feature_count, result>>
    /\ UNCHANGED <<fault, before, cleared, attempted, written>>
    /\ UNCHANGED <<session_state, current_count, feedback_seq>>

\* the features earlier clustering runs left: two of the first user, one of
\* the second, none of them scored
StoredFeatures ==
    {FeatureRow(1, 1, TextPool[3], 2), FeatureRow(2, 1, TextPool[1], 1),
     FeatureRow(3, 2, TextPool[5], 3)}

InitScore ==
    /\ db_feedback = FeedbackTable([u \in UserIds |-> MaxFeedback], FALSE)
    /\ db_features = StoredFeatures
    /\ feature_seq = Cardinality(StoredFeatures)
    /\ _model = None
    /\ constructed = 0
    /\ calls = 0
    /\ faults = 0
    /\ Frames([s \in Sessions |-> "idle"], [s \in Sessions |-> <<>>],
              [s \in Sessions |-> <<>>])
    /\ NoCalls

\* the calls of one session follow one another
NextScore == ScoreFeature(1)

SpecScore == InitScore /\ [][NextScore]_vars

----------------------------------------------------------------------------
(* run_clustering over the tables that earlier runs and scoring left *)

\* the feedback rows of the first user, more than DEFAULT_CLUSTER_COUNT
MaxStored == 6

\* a feature row as score_feature(id, user_id, reach, impact, effort) left it
ScoredRow(id, u, feature_name, reach, impact, effort) ==
    [FeatureRow(id, u, feature_name, reach) EXCEPT
        !.impact = impact, !.effort = effort, !.confidence = DEFAULT_CONFIDENCE,
        !.rice_score = calculate_rice_score(reach, impact, DEFAULT_CONFIDENCE, effort)]

\* each user holds one scored feature of an earlier run; the first user has
\* added feedback since, the second has deleted some
InitRerun ==
    /\ db_feedback = FeedbackTable([u \in UserIds |-> IF u = 1 THEN MaxStored ELSE 2], FALSE)
    /\ db_features = {ScoredRow(1, 1, TextPool[3], 3, 5, 1),
                      ScoredRow(2, 2, TextPool[5], 3, 2, 5)}
    /\ feature_seq = 2
    /\ _model = None
    /\ constructed = 0
    /\ calls = 0
    /\ faults = 0
    /\ Frames([s \in Sessions |-> "idle"], [s \in Sessions |-> <<>>],
              [s \in Sessions |-> <<>>])
    /\ NoCalls

\* one run of one session
NextRerun == RunStep(1)

SpecRerun == InitRerun /\ [][NextRerun]_vars

----------------------------------------------------------------------------
(* src/auth/auth.py: the session state of a Streamlit session under         *)
(* initialize_session_state, login, login_user and logout_user. In the       *)
(* session state, and in what get_current_user returns, None is <<>> and a   *)
(* value v is <<v>>.                                                         *)

\* calls the sessions make in one behaviour
MaxAuthCalls == 4

\* bcrypt.hashpw(password, salt): the salt is kept in the hash
hashpw(password, salt) == <<"$2b$12$", salt, password>>

\* bcrypt.checkpw(plain_password, hashed_password): the plain password hashed
\* with the salt of the stored hash gives the stored hash
verify_password(plain_password, hashed_password) ==
    hashpw(plain_password, hashed_password[2]) = hashed_password

\* table users, as signup filled it: the email lower-cased and stripped
db_users ==
    {[id |-> 1, name |-> "Ann", email |-> <<"a", "@", "x">>,
      password |-> hashpw("secret1", "salt1")],
     [id |-> 2, name |-> "Bob", email |-> <<"b", "@", "x">>,
      password |-> hashpw("secret2", "salt2")]}

\* SELECT ... FROM users WHERE email = ?: the rows found (email is UNIQUE)
get_user_by_email(email) == {user \in db_users : user.email = email}

Keys == {"logged_in", "user_id", "user_name", "user_email"}

\* initialize_session_state(): each key is set only when it is absent
initialize_session_state(st) ==
    [key \in Keys |->
        IF key \in DOMAIN st THEN st[key]
        ELSE IF key = "logged_in" THEN FALSE ELSE <<>>]

login_user(st, id, name, email) ==
    [key \in Keys |->
        CASE key = "logged_in" -> TRUE
          [] key = "user_id" -> <<id>>
          [] key = "user_name" -> <<name>>
          [] key = "user_email" -> <<email>>]

\* a logout that only lowers the flag
logout_flag_only(st) ==
    [key \in Keys |->
        IF key = "logged_in" THEN FALSE
        ELSE IF key \in DOMAIN st THEN st[key] ELSE <<>>]

logout_user(st) == [key \in Keys |-> IF key = "logged_in" THEN FALSE ELSE <<>>]

\* st.session_state.get('logged_in', False)
is_logged_in(st) == IF "logged_in" \in DOMAIN st THEN st["logged_in"] ELSE FALSE

get_current_user(st) ==
    IF ~is_logged_in(st) THEN <<>>
    ELSE <<[id |-> st["user_id"], name |-> st["user_name"], email |-> st["user_email"]]>>

\* what a visitor types into the login form
LoginEmails ==
    {<<>>, <<" ", "A", "@", "x", " ">>, <<"b", "@", "x">>, <<"F", "@", "x">>}
LoginPasswords == {"", "secret1", "secret2"}

\* a session makes the next call of auth.py, which touches no table and
\* nothing of the clustering pipeline
AuthCall(s, a) ==
    /\ calls < MaxAuthCalls
    /\ calls' = calls + 1
    /\ args' = [args EXCEPT ![s] = a]
    /\ pc' = [pc EXCEPT ![s] = "returned"]
    /\ UNCHANGED <<db, _model, constructed>>
    /\ UNCHANGED <<user_id, feedback_list, model, embeddings, requested_k, kmeans_k,
                   labels, features, idx, feature_count, result>>
    /\ UNCHANGED <<fault, before, cleared, attempted, written>>
    /\ UNCHANGED <<current_count, feedback_seq>>

InitializeSessionState(s) ==
    /\ AuthCall(s, [fn |-> "initialize_session_state", call |-> calls + 1])
    /\ session_state' = [session_state EXCEPT ![s] = initialize_session_state(@)]
    /\ returned' = [returned EXCEPT ![s] = <<>>]
    /\ UNCHANGED <<faults, swallowed>>

\* login(email, password)
Login(s) ==
    \E email \in LoginEmails, password \in LoginPasswords :
        /\ AuthCall(s, [fn |-> "login", call |-> calls + 1, email |-> email,
                        password |-> password])
        /\ IF email = <<>> \/ password = ""
           THEN /\ returned' = [returned EXCEPT ![s] =
                                   <<FALSE, "Email and password are required">>]
                /\ UNCHANGED <<session_state, faults, swallowed>>
           ELSE \E found \in {get_user_by_email(
                                  strip([i \in 1..Len(email) |-> lower(email[i])])), {}} :
                    /\ \/ /\ found = get_user_by_email(
                                         strip([i \in 1..Len(email) |-> lower(email[i])]))
                          /\ UNCHANGED <<faults, swallowed>>
                       \/ /\ found = {}
                          /\ Inject
                          /\ swallowed' = [swallowed EXCEPT ![s] =
                                              @ \cup {"get_user_by_email"}]
                    /\ IF found = {}
                       THEN /\ returned' = [returned EXCEPT ![s] =
                                               <<FALSE, "Invalid email or password">>]
                            /\ UNCHANGED session_state
                       ELSE LET user == CHOOSE user \in found : TRUE
                            IN  IF ~verify_password(password, user.password)
                                THEN /\ returned' = [returned EXCEPT ![s] =
                                            <<FALSE, "Invalid email or password">>]
                                     /\ UNCHANGED session_state
                                ELSE /\ session_state' =
                                            [session_state EXCEPT ![s] =
                                                login_user(@, user.id, user.name, user.email)]
                                     /\ returned' = [returned EXCEPT ![s] =
                                            <<TRUE, "Welcome back, " \o user.name \o "!">>]

\* login_user(user_id, name, email) for a row of table users
LoginUser(s) ==
    /\ \E user \in db_users :
           /\ AuthCall(s, [fn |-> "login_user", call |-> calls + 1, user_id |-> user.id,
                           name |-> user.name, email |-> user.email])
           /\ session_state' = [session_state EXCEPT ![s] =
                                   login_user(@, user.id, user.name, user.email)]
    /\ returned' = [returned EXCEPT ![s] = <<>>]
    /\ UNCHANGED <<faults, swallowed>>

LogoutUser(s) ==
    /\ AuthCall(s, [fn |-> "logout_user", call |-> calls + 1])
    /\ session_state' = [session_state EXCEPT ![s] = logout_user(@)]
    /\ returned' = [returned EXCEPT ![s] = <<>>]
    /\ UNCHANGED <<faults, swallowed>>

AuthStep(s) ==
    \/ InitializeSessionState(s)
    \/ Login(s)
    \/ LoginUser(s)
    \/ LogoutUser(s)

InitAuth ==
    /\ db_feedback = {}
    /\ Idle

NextAuth == \E s \in Sessions : AuthStep(s)

SpecAuth == InitAuth /\ [][NextAuth]_vars

----------------------------------------------------------------------------
(* Properties *)

\* the rows of table features that belong to user u
UserRows(u) == {r \in db_features : r.user_id = u}

\* the rows of user u that were there when the run of session s was called
RowsBefore(s, u) == {r \in before[s] : r.user_id = u}

\* the rows the run of session s inserted and that are still there
WrittenIds(s) == {w[2] : w \in written[s]}
WrittenRows(s) == {r \in db_features : r.id \in WrittenIds(s)}

\* the positions of features whose create_feature call failed
FailedInserts(s) == attempted[s] \ {w[1] : w \in written[s]}

RECURSIVE SumReach(_)
SumReach(rows) ==
    IF rows = {} THEN 0
    ELSE LET r == CHOOSE r \in rows : TRUE
         IN  r.reach + SumReach(rows \ {r})

RECURSIVE SumReachAt(_, _)
SumReachAt(fs, positions) ==
    IF positions = {} THEN 0
    ELSE LET i == CHOOSE i \in positions : TRUE
         IN  fs[i].reach + SumReachAt(fs, positions \ {i})

StoredCount(u) == Cardinality({r \in db_feedback : r.user_id = u})

Returned(s) == pc[s] = "done"

C2_Original ==
    \A s \in Sessions :
        (Returned(s)
            /\ (fault[s] # None
                \/ swallowed[s] \cap {"clear_user_features", "create_feature"} # {}))
            => /\ ~result[s].success
               /\ UserRows(user_id[s]) = RowsBefore(s, user_id[s])

\* C2 amended: when the model load, the encoding, the clustering or the
\* aggregation raises, run_clustering returns failure with the description of
\* the exception and has neither deleted nor inserted a feature row; a failing
\* clear_user_features or create_feature call is not reported as a failure,
\* the run goes on and returns success.
C2_FailureLeavesFeatures ==
    \A s \in Sessions :
        /\ (Returned(s) /\ fault[s] # None) =>
               /\ ~result[s].success
               /\ result[s].message = "Error during clustering: " \o fault[s]
               /\ cleared[s] = <<>> /\ written[s] = {} /\ attempted[s] = {}
               /\ db_features = before[s]
        /\ (Returned(s)
               /\ swallowed[s] \cap {"clear_user_features", "create_feature"} # {})
               => result[s].success

\* a second run failed in a stage, the rows of the first run still there
C2_Witness ==
    \E s \in Sessions :
        /\ Returned(s) /\ fault[s] # None
        /\ ~result[s].success
        /\ UserRows(user_id[s]) # {}
        /\ db_features = before[s]

\* C3 as claimed: for every fetched feedback list shorter than
\* MIN_FEEDBACK_FOR_CLUSTERING, the empty list included, run_clustering returns
\* (False, "Not enough feedback to run clustering...", 0) and creates no row.
C3_Original ==
    \A s \in Sessions :
        (Returned(s) /\ Len(feedback_list[s]) < MIN_FEEDBACK_FOR_CLUSTERING)
            => /\ result[s] = [success |-> FALSE, message |-> NotEnoughMessage,
                               feature_count |-> 0]
               /\ written[s] = {}

\* C3 amended: a fetched list of length 1 .. MIN_FEEDBACK_FOR_CLUSTERING - 1
\* gives (False, "Not enough feedback to run clustering. Need at least 3
\* items.", 0); the empty list gives (False, "No feedback found. Please add
\* feedback first.", 0); in both cases no feature row is created or deleted.
C3_BelowMinimum ==
    \A s \in Sessions :
        (Returned(s) /\ Len(feedback_list[s]) < MIN_FEEDBACK_FOR_CLUSTERING)
            => /\ ~result[s].success
               /\ result[s].feature_count = 0
               /\ result[s].message =
                      IF Len(feedback_list[s]) = 0
                      THEN "No feedback found. Please add feedback first."
                      ELSE "Not enough feedback to run clustering. Need at least 3 items."
               /\ written[s] = {} /\ cleared[s] = <<>>
               /\ db_features = before[s]

\* a run over two feedback rows returned
C3_Witness ==
    \E s \in Sessions :
        /\ Returned(s)
        /\ Len(feedback_list[s]) = MIN_FEEDBACK_FOR_CLUSTERING - 1
        /\ result[s].message = NotEnoughMessage

\* C4: after a run that returns success, the user's persisted rows are exactly
\* the rows this run wrote, no row of an earlier run remaining, also when
\* clear_user_features reported failure.
C4_DeleteAndReplace ==
    \A s \in Sessions :
        (Returned(s) /\ result[s].success) => UserRows(user_id[s]) = WrittenRows(s)

\* C5: when sessions call load_model concurrently while the model is not yet
\* loaded, SentenceTransformer is constructed exactly once, and every caller
\* gets an instance whose construction has completed.
C5_ConstructedOnce ==
    /\ constructed <= 1
    /\ \A s \in Sessions :
           model[s] # None => model[s] \in {SentenceTransformer(i) : i \in 1..constructed}

\* the ids of the rows of user u
RowIds(rows) == {r.id : r \in rows}

\* C6 as claimed: when two runs for the same user have both completed, the
\* user's persisted rows are the rows written by exactly one of the two runs,
\* never a mixture. (Stated of the runs in which nothing failed.)
C6_Original ==
    \A s, t \in Sessions :
        (s # t /\ Returned(s) /\ Returned(t) /\ user_id[s] = user_id[t]
            /\ result[s].success /\ result[t].success /\ faults = 0)
            => \/ RowIds(UserRows(user_id[s])) = WrittenIds(s)
               \/ RowIds(UserRows(user_id[s])) = WrittenIds(t)

\* the greatest element of a non-empty set of numbers
Greatest(S) == CHOOSE x \in S : \A y \in S : y <= x

\* C6 amended: when two runs for the same user have both completed, the
\* user's persisted rows are exactly the rows inserted after the last
\* committed clear_user_features of the two runs: all rows of the run that
\* cleared last, and those rows of the other run that it inserted after that
\* clear, so the set may mix rows of both runs.
C6_LastClearWins ==
    \A s, t \in Sessions :
        (s # t /\ Returned(s) /\ Returned(t) /\ user_id[s] = user_id[t]) =>
            LET u == user_id[s]
                clears == {cleared[r][1] : r \in {r \in {s, t} : cleared[r] # <<>>}}
                last == IF clears = {} THEN 0 ELSE Greatest(clears)
                inserted == WrittenIds(s) \cup WrittenIds(t)
                               \cup RowIds(RowsBefore(s, u)) \cup RowIds(RowsBefore(t, u))
            IN  /\ RowIds(UserRows(u)) = {i \in inserted : i > last}
                /\ \E r \in {s, t} : WrittenIds(r) \subseteq RowIds(UserRows(u))

\* two runs for one user completed, and rows of both are persisted
C6_Witness ==
    \E s, t \in Sessions :
        /\ s # t /\ Returned(s) /\ Returned(t) /\ user_id[s] = user_id[t]
        /\ result[s].success /\ result[t].success
        /\ cleared[s] # <<>> /\ cleared[t] # <<>>
        /\ WrittenIds(s) \cap RowIds(UserRows(user_id[s])) # {}
        /\ WrittenIds(t) \cap RowIds(UserRows(user_id[s])) # {}

\* C7 as claimed: run_clustering never raises, and for a fault raised in any
\* stage (fetch, embed, cluster, aggregate, clear, insert) it returns
\* (False, message, 0) with the description of the fault in the message.
C7_Original ==
    \A s \in Sessions :
        (Returned(s) /\ (fault[s] # None \/ swallowed[s] # {}))
            => result[s] =
                   [success |-> FALSE,
                    message |-> "Error during clustering: "
                                    \o (IF fault[s] # None THEN fault[s] ELSE DatabaseFault),
                    feature_count |-> 0]

Stages ==
    {"idle", "fetch", "check_minimum", "embed", "load_model", "encode", "cluster",
     "aggregate", "clear", "insert", "done"}

\* C7 amended: run_clustering never raises. A fault raised while loading the
\* model, encoding, clustering or aggregating gives (False, "Error during
\* clustering: " + description, 0). A database fault in get_user_feedback is
\* caught there and gives (False, "No feedback found. Please add feedback
\* first.", 0), without the description; a database fault in
\* clear_user_features or create_feature is caught there and the run still
\* returns success.
C7_CatchAll ==
    \A s \in Sessions :
        /\ pc[s] \in Stages
        /\ Returned(s) =>
               /\ fault[s] # None =>
                      result[s] = [success |-> FALSE,
                                   message |-> "Error during clustering: " \o fault[s],
                                   feature_count |-> 0]
               /\ "get_user_feedback" \in swallowed[s] =>
                      result[s] = [success |-> FALSE,
                                   message |-> "No feedback found. Please add feedback first.",
                                   feature_count |-> 0]
               /\ swallowed[s] \cap {"clear_user_features", "create_feature"} # {} =>
                      (result[s].success /\ fault[s] = None)

\* a run whose clustering stage raised has returned
C7_Witness ==
    \E s \in Sessions :
        /\ Returned(s)
        /\ fault[s] = ConvergenceFault
        /\ result[s].message = "Error during clustering: KMeans: numerical failure"

\* C8: a failing create_feature call does not stop the loop of the persist
\* step: every remaining feature is still attempted, and the returned
\* feature_count is the number of create_feature calls that succeeded, at most
\* the number of clusters found.
C8_PartialSuccess ==
    \A s \in Sessions :
        /\ pc[s] = "insert" =>
               /\ attempted[s] = 1..(idx[s] - 1)
               /\ feature_count[s] = Cardinality(written[s])
        /\ (Returned(s) /\ result[s].success) =>
               /\ attempted[s] = 1..Len(features[s])
               /\ result[s].feature_count = Cardinality(written[s])
               /\ result[s].feature_count = Len(features[s]) - Cardinality(FailedInserts(s))
               /\ result[s].feature_count <=
                      Cardinality({labels[s][i] : i \in 1..Len(labels[s])})

\* a create_feature call failed and a later one of the same run succeeded
C8_Witness ==
    \E s \in Sessions :
        /\ Returned(s) /\ result[s].success
        /\ \E p \in FailedInserts(s), w \in written[s] : w[1] > p
        /\ result[s].feature_count < Len(features[s])

RECURSIVE SeqSumReach(_)
SeqSumReach(fs) == IF fs = <<>> THEN 0 ELSE Head(fs).reach + SeqSumReach(Tail(fs))

\* C9: for every feedback list and label sequence of the same length, the
\* features generate_features_from_clusters returns have reach values that sum
\* to the number of feedback items, and every feedback index is counted in
\* exactly one feature.
C9_Partition ==
    \A s \in Sessions :
        pc[s] = "returned" =>
            LET fs == features[s]
                l == labels[s]
                n == Len(feedback_list[s])
                members(c) == {i \in 1..n : l[i] = fs[c].cluster_id}
            IN  /\ SeqSumReach(fs) = n
                /\ \A i \in 1..n : Cardinality({c \in 1..Len(fs) : i \in members(c)}) = 1
                /\ \A c \in 1..Len(fs) : fs[c].reach = Cardinality(members(c))

\* four feedback items were grouped into three features
C9_Witness ==
    \E s \in Sessions :
        /\ pc[s] = "returned"
        /\ Len(feedback_list[s]) = 4
        /\ Len(features[s]) = 3
        /\ features[s][1].reach = 2

Max(a, b) == IF a > b THEN a ELSE b

\* C10: for every non-empty vector sequence of length n and every requested_k,
\* zero and negative values included, cluster_feedback runs KMeans with
\* max(1, min(requested_k, n)) clusters, never with more than n or fewer than 1.
C10_EffectiveK ==
    \A s \in Sessions :
        kmeans_k[s] # <<>> =>
            LET n == Len(embeddings[s])
                requested == IF requested_k[s] = <<>> THEN DEFAULT_CLUSTER_COUNT
                             ELSE requested_k[s][1]
            IN  /\ kmeans_k[s][1] = Max(1, Min(requested, n))
                /\ 1 <= kmeans_k[s][1]
                /\ kmeans_k[s][1] <= n

\* the n_clusters asked of cluster_feedback by session s
Requested(s) == IF requested_k[s] = <<>> THEN DEFAULT_CLUSTER_COUNT ELSE requested_k[s][1]

\* C11: for every non-empty vector sequence of length n and every requested k,
\* cluster_feedback returns exactly n labels, each at least 0 and below
\* min(k, n); a single vector gets label 0. (A numerical failure inside KMeans
\* is left aside.)
C11_LabelsInRange ==
    \A s \in Sessions :
        (pc[s] \in {"returned", "raised"} /\ fault[s] # ConvergenceFault) =>
            LET n == Len(embeddings[s])
            IN  /\ pc[s] = "returned"
                /\ Len(labels[s]) = n
                /\ \A i \in 1..Len(labels[s]) :
                       0 <= labels[s][i] /\ labels[s][i] < Min(Requested(s), n)
                /\ n = 1 => labels[s] = <<0>>

StageOrder ==
    {<<"idle", "fetch">>, <<"fetch", "check_minimum">>, <<"check_minimum", "embed">>,
     <<"embed", "load_model">>, <<"embed", "encode">>, <<"load_model", "encode">>,
     <<"encode", "cluster">>, <<"cluster", "aggregate">>, <<"aggregate", "clear">>,
     <<"clear", "insert">>, <<"insert", "done">>}

\* the returns of "if not feedback_list" and of the minimum check
EarlyExits == {<<"fetch", "done">>, <<"check_minimum", "done">>}

\* the returns of the except handler
ExceptionExits ==
    {<<"load_model", "done">>, <<"encode", "done">>, <<"cluster", "done">>,
     <<"aggregate", "done">>}

\* the features table changes only in the persist step
PersistOnly ==
    db_features' # db_features => \E s \in Sessions : pc[s] \in {"clear", "insert"}

\* C13 as claimed: in every run the stages occur in the order fetch, minimum
\* check, embed, cluster, aggregate, persist (clear then inserts), done, none
\* repeated or revisited; clear_user_features is never called before the
\* aggregation has completed; the only failure exits are at fetch and at the
\* minimum check.
C13_Original ==
    [][/\ \A s \in Sessions :
              pc'[s] # pc[s] =>
                  \/ <<pc[s], pc'[s]>> \in StageOrder \cup EarlyExits
                  \/ pc[s] = "done" /\ pc'[s] = "idle"
       /\ PersistOnly]_vars

\* C13 amended: in every run the stages occur in the order fetch, minimum
\* check, embed, cluster, aggregate, persist (clear then inserts), done, none
\* repeated or revisited, and the features table is not touched before the
\* aggregation has completed. The run leaves early with a failure at fetch (no
\* feedback), at the minimum check (below threshold), and also from the embed,
\* cluster and aggregate stages when an exception is raised there; the
\* persist step never leaves with a failure.
C13_StageOrder ==
    [][/\ \A s \in Sessions :
              pc'[s] # pc[s] =>
                  \/ /\ <<pc[s], pc'[s]>> \in StageOrder
                     /\ pc'[s] = "done" => result'[s].success
                  \/ /\ <<pc[s], pc'[s]>> \in EarlyExits
                     /\ ~result'[s].success /\ fault'[s] = None
                  \/ /\ <<pc[s], pc'[s]>> \in ExceptionExits
                     /\ ~result'[s].success /\ fault'[s] # None
                  \/ pc[s] = "done" /\ pc'[s] = "idle"
       /\ PersistOnly]_vars

\* a run was left from the aggregate stage by an exception, after clustering
C13_Witness ==
    \E s \in Sessions :
        /\ Returned(s)
        /\ fault[s] = AggregateFault
        /\ labels[s] # <<>>
        /\ cleared[s] = <<>>

\* C14: when the fetched feedback count is below MIN_FEEDBACK_FOR_CLUSTERING,
\* run_clustering returns before any embedding or clustering work: the run has
\* neither loaded nor invoked the model, KMeans was not run, and
\* clear_user_features / create_feature were not called.
C14_GateBeforeWork ==
    \A s \in Sessions :
        (pc[s] \in {"fetch", "check_minimum"}
            \/ (Returned(s) /\ Len(feedback_list[s]) < MIN_FEEDBACK_FOR_CLUSTERING))
            => /\ model[s] = None
               /\ embeddings[s] = <<>>
               /\ kmeans_k[s] = <<>> /\ labels[s] = <<>>
               /\ features[s] = <<>>
               /\ cleared[s] = <<>> /\ attempted[s] = {} /\ written[s] = {}
               /\ swallowed[s] \subseteq {"get_user_feedback"}
               /\ db_features = before[s]

\* a run below the minimum returned, in a process whose model an earlier run
\* had loaded
C14_Witness ==
    \E s \in Sessions :
        /\ Returned(s)
        /\ Len(feedback_list[s]) \in 1..(MIN_FEEDBACK_FOR_CLUSTERING - 1)
        /\ result[s].message = NotEnoughMessage
        /\ _model # None
        /\ model[s] = None

\* C15: over any sequence of sequential generate_embeddings / load_model
\* calls in one process, the embedding model is constructed at most once, on
\* the first call that needs it, and every later call receives that same
\* cached instance without reloading.
C15_CachedModel ==
    /\ constructed <= 1
    /\ _model = None <=> constructed = 0
    /\ \A s \in Sessions :
           /\ model[s] # None => (model[s] = _model /\ model[s] = SentenceTransformer(1))
           /\ pc[s] = "loaded" => model[s] # None
           /\ (pc[s] = "returned" /\ feedback_list[s] # <<>>) => model[s] # None

\* three calls were made, and both callers hold the one instance
C15_Witness ==
    /\ calls = MaxEmbedCalls
    /\ constructed = 1
    /\ \A s \in Sessions : pc[s] \in {"returned", "loaded"} /\ model[s] = _model

\* C16: generate_embeddings on an empty input sequence returns an empty result
\* without loading or invoking the model and without error; the model-loaded
\* state is unchanged by such a call.
C16_EmptyInput ==
    [][\A s \in Sessions :
           (pc[s] = "generate_embeddings" /\ feedback_list[s] = <<>> /\ pc'[s] # pc[s])
               => /\ pc'[s] = "returned"
                  /\ embeddings'[s] = <<>>
                  /\ model'[s] = None
                  /\ fault'[s] = None
                  /\ UNCHANGED <<_model, constructed, faults>>]_vars

\* generate_embeddings returned from a call on no texts, in a process that
\* has not loaded the model
C16_Witness ==
    \E s \in Sessions :
        /\ pc[s] = "returned"
        /\ feedback_list[s] = <<>>
        /\ embeddings[s] = <<>>
        /\ _model = None /\ constructed = 0

\* the feedback positions that carry label c in the call of session s
Members(s, c) == {i \in 1..Len(labels[s]) : labels[s][i] = c}

\* the position of the shortest raw text among the members of cluster c, the
\* first one in input order when several are equally short
FirstShortest(s, c) ==
    CHOOSE i \in Members(s, c) :
        \A j \in Members(s, c) :
            LET ti == feedback_list[s][i].feedback_text
                tj == feedback_list[s][j].feedback_text
            IN  Len(ti) < Len(tj) \/ (Len(ti) = Len(tj) /\ i <= j)

\* C17: for every non-empty cluster, the name is taken from the shortest raw
\* feedback text among the cluster's members, and from the first such text in
\* input order when several members share the minimum length (the name is that
\* text, or its truncation when it is longer than the cutoff).
C17_ShortestFirst ==
    \A s \in Sessions :
        pc[s] = "returned" =>
            \A c \in 1..Len(features[s]) :
                LET chosen == feedback_list[s][FirstShortest(s, features[s][c].cluster_id)]
                                  .feedback_text
                    name == features[s][c].feature_name
                IN  /\ Members(s, features[s][c].cluster_id) # {}
                    /\ \/ name = chosen
                       \/ /\ Len(chosen) > max_length
                          /\ Len(name) = max_length + 3
                          /\ SubSeq(name, 1, max_length) = SubSeq(chosen, 1, max_length)

\* a cluster held two different texts of the same minimal length, and a longer
\* one before them
C17_Witness ==
    \E s \in Sessions :
        /\ pc[s] = "returned"
        /\ Len(features[s]) = 1
        /\ \E i, j, k \in Members(s, features[s][1].cluster_id) :
               /\ k < i /\ i < j
               /\ Len(feedback_list[s][k].feedback_text) >
                      Len(feedback_list[s][i].feedback_text)
               /\ Len(feedback_list[s][i].feedback_text) =
                      Len(feedback_list[s][j].feedback_text)
               /\ feedback_list[s][i].feedback_text # feedback_list[s][j].feedback_text
               /\ features[s][1].feature_name = feedback_list[s][i].feedback_text

\* C18: a chosen representative text longer than the configured maximum
\* display length M = MAX_FEEDBACK_DISPLAY_LENGTH is replaced by its first M
\* characters followed by "...", M + 3 characters in all; a chosen text of at
\* most M characters is returned unchanged; so no feature name is longer than
\* M + 3.
C18_Truncation ==
    \A s \in Sessions :
        pc[s] = "returned" =>
            \A c \in 1..Len(features[s]) :
                LET chosen == feedback_list[s][FirstShortest(s, features[s][c].cluster_id)]
                                  .feedback_text
                    name == features[s][c].feature_name
                    M == MAX_FEEDBACK_DISPLAY_LENGTH
                IN  /\ Len(chosen) > M =>
                           /\ name = SubSeq(chosen, 1, M) \o <<".", ".", ".">>
                           /\ Len(name) = M + 3
                    /\ Len(chosen) <= M => name = chosen
                    /\ Len(name) <= M + 3

\* C19: the list generate_features_from_clusters returns is ordered by reach
\* descending, and any two features of equal reach appear in ascending
\* cluster_id order.
C19_Ordering ==
    \A s \in Sessions :
        pc[s] = "returned" =>
            \A a, b \in 1..Len(features[s]) :
                a < b =>
                    /\ features[s][a].reach >= features[s][b].reach
                    /\ features[s][a].reach = features[s][b].reach
                           => features[s][a].cluster_id < features[s][b].cluster_id

\* the largest cluster has the greatest label and comes first, followed by
\* two clusters of equal reach
C19_Witness ==
    \E s \in Sessions :
        /\ pc[s] = "returned"
        /\ Len(features[s]) = 3
        /\ features[s][1].cluster_id = 2
        /\ features[s][1].reach > features[s][2].reach
        /\ features[s][2].reach = features[s][3].reach

\* the number of positions of l that hold the label c
Occurrences(l, c) == Cardinality({i \in 1..Len(l) : l[i] = c})

\* C20: generate_features_from_clusters returns exactly one feature per
\* distinct label value of the label sequence, with reach equal to the number
\* of occurrences of that label; the labels [0,1,0,1,1] give exactly two
\* features, reach 3 first and reach 2 second.
C20_OnePerLabel ==
    \A s \in Sessions :
        pc[s] = "returned" =>
            LET fs == features[s]
                l == labels[s]
                distinct == {l[i] : i \in 1..Len(l)}
            IN  /\ Len(fs) = Cardinality(distinct)
                /\ {fs[c].cluster_id : c \in 1..Len(fs)} = distinct
                /\ \A c \in 1..Len(fs) : fs[c].reach = Occurrences(l, fs[c].cluster_id)
                /\ l = <<0, 1, 0, 1, 1>> =>
                       /\ Len(fs) = 2
                       /\ fs[1].reach = 3 /\ fs[1].cluster_id = 1
                       /\ fs[2].reach = 2 /\ fs[2].cluster_id = 0

\* the call on the labels [0,1,0,1,1] returned
C20_Witness ==
    \E s \in Sessions :
        /\ pc[s] = "returned"
        /\ labels[s] = <<0, 1, 0, 1, 1>>
        /\ Len(features[s]) = 2
        /\ features[s][1].reach = 3

\* the text with every character folded to lower case and every run of
\* whitespace replaced by one space, read front to back
RECURSIVE Collapsed(_)
Collapsed(text) ==
    IF text = <<>> THEN <<>>
    ELSE IF Head(text) \in Whitespace
    THEN IF Len(text) > 1 /\ text[2] \in Whitespace
         THEN Collapsed(Tail(text))
         ELSE <<" ">> \o Collapsed(Tail(text))
    ELSE <<lower(Head(text))>> \o Collapsed(Tail(text))

\* a text without its first character if that is a space, and without its
\* last character if that is a space
Trimmed(text) ==
    LET front == IF text # <<>> /\ Head(text) = " " THEN Tail(text) ELSE text
    IN  IF front # <<>> /\ front[Len(front)] = " "
        THEN SubSeq(front, 1, Len(front) - 1)
        ELSE front

\* C21: preprocess_text returns the empty string for the empty (or null)
\* input; otherwise what it returns is the input in lower case with every run
\* of spaces, tabs and newlines collapsed to one space and without leading or
\* trailing whitespace: no upper-case letter, no whitespace but the single
\* space, no space at either end, no two spaces in a row. Applying
\* preprocess_text to what it returned gives the same text again.
C21_Normalised ==
    pc[1] = "returned" =>
        LET text == args[1].text
            out == returned[1]
        IN  /\ text = <<>> => out = <<>>
            /\ out = Trimmed(Collapsed(text))
            /\ \A i \in 1..Len(out) :
                   /\ out[i] \notin Upper
                   /\ out[i] \notin Whitespace \ {" "}
                   /\ out[i] = " " => /\ 1 < i
                                      /\ i < Len(out)
                                      /\ out[i + 1] # " "
            /\ preprocess_text(out) = out

\* preprocess_text has returned "a b" for "A", tab, newline, "b"
C21_Witness ==
    /\ pc[1] = "returned"
    /\ args[1].text = <<"A", "\t", "\n", "b">>
    /\ returned[1] = <<"a", " ", "b">>

\* the row of table features a run wrote as its feature at position w[1]
RowWritten(w) == CHOOSE r \in db_features : r.id = w[2]

\* C22 as claimed: every feature row written by the run carries the
\* feature_name and the reach of its feature, and its cluster_id, impact,
\* effort, confidence and rice_score each hold NULL or 0 (cluster_id, never
\* set, holds NULL; the numeric columns are compared with 0).
C22_Original ==
    \A w \in written[1] :
        LET r == RowWritten(w)
            feature == features[1][w[1]]
        IN  /\ r.feature_name = feature.feature_name
            /\ r.reach = feature.reach
            /\ r.cluster_id = NULL
            /\ r.impact = 0
            /\ r.effort = 0
            /\ r.confidence = 0
            /\ r.rice_score = 0

\* C22, amended: every feature row written by the run belongs to the run's
\* user and carries the feature_name and the reach of its feature; its
\* cluster_id is NULL (the label of the cluster is not stored), its impact,
\* effort and rice_score are 0, and its confidence is the column default 80.
C22_WrittenDefaults ==
    \A w \in written[1] :
        /\ \E r \in db_features : r.id = w[2]
        /\ LET r == RowWritten(w)
               feature == features[1][w[1]]
           IN  /\ r.user_id = user_id[1]
               /\ r.feature_name = feature.feature_name
               /\ r.reach = feature.reach
               /\ r.cluster_id = NULL
               /\ r.impact = 0
               /\ r.effort = 0
               /\ r.rice_score = 0
               /\ r.confidence = DEFAULT_confidence

\* a run has returned success after writing two feature rows
C22_Witness ==
    /\ Returned(1)
    /\ result[1].success
    /\ Cardinality(written[1]) = 2
    /\ \A w \in written[1] : RowWritten(w).reach >= 1

\* the texts of the members of the group handed to the labeler
GroupMembers ==
    [i \in 1..Len(args[1].cluster_indices) |->
        args[1].feedback_texts[args[1].cluster_indices[i]]]

\* C23: for an empty group the labeler yields the name "Unnamed Feature" with
\* reach 0, and does not fail. For a group with at least one member it never
\* yields that fallback: the reach is the number of members, at least 1, and
\* the name is taken from a member, the first of the shortest member texts,
\* cut to 100 characters and "..." when longer. (The name of a non-empty
\* group reads "Unnamed Feature" only when that very member text does.)
C23_Fallback ==
    pc[1] = "returned" =>
        LET group == args[1].cluster_indices
            out == returned[1]
        IN  /\ group = <<>> => out.feature_name = Unnamed /\ out.reach = 0
            /\ group # <<>> =>
                   /\ out.reach = Len(group)
                   /\ out.reach >= 1
                   /\ <<out.feature_name, out.reach>> # <<Unnamed, 0>>
                   /\ \E i \in 1..Len(group) :
                          LET member == GroupMembers[i]
                          IN  /\ \A j \in 1..Len(group) :
                                     Len(member) <= Len(GroupMembers[j])
                              /\ \A j \in 1..(i - 1) :
                                     Len(GroupMembers[j]) > Len(member)
                              /\ IF Len(member) > max_length
                                 THEN out.feature_name =
                                          SubSeq(member, 1, max_length) \o <<".", ".", ".">>
                                 ELSE out.feature_name = member

\* the labeler has returned the placeholder with reach 0 for an empty group
\* taken from a non-empty list of texts
C23_Witness ==
    /\ pc[1] = "returned"
    /\ args[1].feedback_texts # <<>>
    /\ args[1].cluster_indices = <<>>
    /\ returned[1].feature_name = Unnamed
    /\ returned[1].reach = 0

\* C24 as claimed: in every reachable state no user stores more than
\* MAX_FEEDBACK_PER_USER feedback rows, whatever submit_feedback, process_csv
\* and delete_feedback_item calls the sessions have made and however their
\* count checks and inserts interleave.
C24_WithinLimit ==
    \A u \in UserIds : get_feedback_count(u) <= MAX_FEEDBACK_PER_USER

\* two sessions have both passed the count check of one user and both
\* inserted
C24_Witness ==
    /\ \A s \in Sessions :
           /\ pc[s] = "returned"
           /\ args[s].fn \in {"submit_feedback", "process_csv"}
           /\ args[s].user_id = 1
           /\ returned[s][1]
    /\ swallowed = [s \in Sessions |-> {}]
    /\ get_feedback_count(1) > MAX_FEEDBACK_PER_USER

\* the arguments of a score_feature call pass the validation: impact and
\* effort in 1..5, and confidence, or the default 80 when None is given,
\* in 0..100
ValidScores(a) ==
    /\ a.impact # <<>>
    /\ a.impact[1] \in 1..5
    /\ a.effort # <<>>
    /\ a.effort[1] \in 1..5
    /\ a.confidence # <<>> => a.confidence[1] \in 0..100

Calling(s, fn) ==
    /\ calls' = calls + 1
    /\ args'[s].fn = fn
    /\ args'[s].call = calls'

NotFoundOrUnauthorized == <<FALSE, "Feedback not found or unauthorized">>

\* C26 as claimed: a delete_feedback call removes a row only if the row has
\* the given id and belongs to the given user, at most one row per call; when
\* there is no such row (it does not exist, or belongs to another user) the
\* call returns (False, "Feedback not found or unauthorized") and the table
\* is unchanged.
C26_Original ==
    [][\A s \in Sessions :
           Calling(s, "delete_feedback_item") =>
               LET a == args'[s]
                   own == {r \in db_feedback :
                              r.id = a.feedback_id /\ r.user_id = a.user_id}
                   removed == db_feedback \ db_feedback'
               IN  /\ db_feedback' \subseteq db_feedback
                   /\ removed \subseteq own
                   /\ Cardinality(removed) <= 1
                   /\ own = {} => /\ returned'[s] = NotFoundOrUnauthorized
                                  /\ db_feedback' = db_feedback]_vars

\* C26, amended: a delete_feedback call removes a row only if the row has the
\* given id and belongs to the given user, at most one row per call, and it
\* returns success exactly when it removed that row. When there is no such
\* row the table is unchanged and the call returns (False, "Feedback not
\* found or unauthorized"), or (False, "Error deleting feedback: ...") when
\* the statement itself failed.
C26_DeleteOwnRow ==
    [][\A s \in Sessions :
           Calling(s, "delete_feedback_item") =>
               LET a == args'[s]
                   own == {r \in db_feedback :
                              r.id = a.feedback_id /\ r.user_id = a.user_id}
                   removed == db_feedback \ db_feedback'
               IN  /\ db_feedback' \subseteq db_feedback
                   /\ removed \subseteq own
                   /\ Cardinality(removed) <= 1
                   /\ returned'[s][1] <=> (own # {} /\ removed = own)
                   /\ own = {} =>
                          /\ db_feedback' = db_feedback
                          /\ \/ returned'[s] = NotFoundOrUnauthorized
                             \/ /\ returned'[s] =
                                       <<FALSE, "Error deleting feedback: " \o DatabaseFault>>
                                /\ faults' = faults + 1]_vars

\* a session asked to delete a row of the other user: the row is still
\* there and the call returned (False, "Feedback not found or unauthorized")
C26_Witness ==
    \E s \in Sessions :
        /\ pc[s] = "returned"
        /\ args[s].fn = "delete_feedback_item"
        /\ \E r \in db_feedback :
               r.id = args[s].feedback_id /\ r.user_id # args[s].user_id
        /\ returned[s] = NotFoundOrUnauthorized

\* C27: no step of run_clustering(user_id), on the success path, the early
\* exits and the failure paths alike, changes table feedback, and none adds,
\* removes or changes a feature row of a user other than user_id.
C27_Frame ==
    [][/\ db_feedback' = db_feedback
       /\ {r \in db_features' : r.user_id # user_id'[1]}
              = {r \in db_features : r.user_id # user_id'[1]}]_vars

\* a run for the first user has deleted that user's old row and written new
\* ones, and has returned; the scored row of the second user is as it was
C27_Witness ==
    /\ Returned(1)
    /\ user_id[1] = 1
    /\ result[1].success
    /\ cleared[1] # <<>>
    /\ written[1] # {}
    /\ ScoredRow(2, 2, TextPool[5], 3, 2, 5) \in db_features
    /\ ScoredRow(1, 1, TextPool[3], 3, 5, 1) \notin db_features

\* C28 as claimed: once a run_clustering call that reached the persist step
\* has returned, no RICE score assigned earlier survives: every feature row
\* of the user has rice_score 0, impact 0 and effort 0, and
\* get_prioritized_features returns nothing for the user.
C28_NoScoreSurvives ==
    (Returned(1) /\ result[1].success) =>
        /\ \A r \in UserRows(user_id[1]) :
               r.rice_score = 0 /\ r.impact = 0 /\ r.effort = 0
        /\ get_prioritized_features(user_id[1]) = {}

\* a run reached the persist step and returned success, its DELETE failed,
\* and the row scored before the run is still among the user's rows
C28_Witness ==
    /\ Returned(1)
    /\ result[1].success
    /\ user_id[1] = 1
    /\ "clear_user_features" \in swallowed[1]
    /\ written[1] # {}
    /\ ScoredRow(1, 1, TextPool[3], 3, 5, 1) \in get_prioritized_features(1)

\* C29: for every (success, message, feature_count) that run_clustering
\* returns, success = False implies feature_count = 0, and success = True
\* implies 0 <= feature_count <= min(DEFAULT_CLUSTER_COUNT, number of the
\* user's feedback items).
C29_CountBounds ==
    Returned(1) =>
        /\ ~result[1].success => result[1].feature_count = 0
        /\ result[1].success =>
               /\ 0 <= result[1].feature_count
               /\ result[1].feature_count
                      <= Min(DEFAULT_CLUSTER_COUNT, StoredCount(user_id[1]))
               /\ StoredCount(user_id[1]) = Len(feedback_list[1])

\* a run over six feedback items has returned success with five features,
\* the most that DEFAULT_CLUSTER_COUNT allows
C29_Witness ==
    /\ Returned(1)
    /\ result[1].success
    /\ StoredCount(user_id[1]) = MaxStored
    /\ result[1].feature_count = DEFAULT_CLUSTER_COUNT

\* the session state that holds the row user of table users, logged in
LoggedInAs(user) == login_user(<<>>, user.id, user.name, user.email)

\* the rows of table users that email and password authenticate
Authenticated(email, password) ==
    {user \in db_users :
        /\ user.email = strip([i \in 1..Len(email) |-> lower(email[i])])
        /\ verify_password(password, user.password)}

\* C30: whatever initialize_session_state, login, login_user and logout_user
\* calls a session has seen, logged_in = True implies that user_id, user_name
\* and user_email are those of the user authenticated last: login_user and a
\* successful login set the three to their user, and no other call changes
\* them while the session stays logged in. After logout_user the three are
\* None and get_current_user returns None. A failed login (unknown email or
\* wrong password) leaves the session state as it was. No call of a session
\* touches the state of another session.
C30_SessionState ==
    /\ [](\A s \in Sessions :
              LET st == session_state[s]
              IN  IF is_logged_in(st)
                  THEN /\ \E user \in db_users : st = LoggedInAs(user)
                       /\ get_current_user(st) =
                              <<[id |-> st["user_id"], name |-> st["user_name"],
                                 email |-> st["user_email"]]>>
                  ELSE /\ get_current_user(st) = <<>>
                       /\ \A key \in DOMAIN st \ {"logged_in"} : st[key] = <<>>)
    /\ [][\A s \in Sessions :
              LET st == session_state[s]
                  a == args'[s]
              IN  /\ Calling(s, "login_user") =>
                         /\ is_logged_in(st')
                         /\ st'["user_id"] = <<a.user_id>>
                         /\ st'["user_name"] = <<a.name>>
                         /\ st'["user_email"] = <<a.email>>
                  /\ Calling(s, "login") =>
                         /\ returned'[s][1] =>
                                /\ Authenticated(a.email, a.password) # {}
                                /\ \E user \in Authenticated(a.email, a.password) :
                                       st' = LoggedInAs(user)
                         /\ ~returned'[s][1] => st' = st
                         /\ Authenticated(a.email, a.password) = {} =>
                                ~returned'[s][1] /\ st' = st
                  /\ Calling(s, "logout_user") =>
                         /\ ~is_logged_in(st')
                         /\ st'["user_id"] = <<>>
                         /\ st'["user_name"] = <<>>
                         /\ st'["user_email"] = <<>>
                         /\ get_current_user(st') = <<>>
                  /\ Calling(s, "initialize_session_state") =>
                         /\ DOMAIN st' = Keys
                         /\ \A key \in DOMAIN st : st'[key] = st[key]
                  /\ (\A fn \in {"login_user", "login", "logout_user",
                                 "initialize_session_state"} : ~Calling(s, fn))
                         => st' = st]_vars

\* a session logged in as Ann had the script rerun and then a login with a
\* wrong password: the login failed and the session is still Ann's
C30_Witness ==
    \E s \in Sessions :
        /\ pc[s] = "returned"
        /\ args[s].fn = "login"
        /\ args[s].email = <<"b", "@", "x">>
        /\ args[s].password = "secret1"
        /\ returned[s] = <<FALSE, "Invalid email or password">>
        /\ is_logged_in(session_state[s])
        /\ session_state[s]["user_id"] = <<1>>
        /\ get_current_user(session_state[s])
               = <<[id |-> <<1>>, name |-> <<"Ann">>, email |-> << <<"a", "@", "x">> >>]>>

====
